---- MODULE Spec2Model ----
(***************************************************************************)
(* A model of server.py: the request handlers of ThumbnailHTTPRequestHandler *)
(* (do_GET, do_POST, handle_download, send_file, list_directory, ...), the  *)
(* thumbnail cache of get_thumbnail_html, and the helpers they call.        *)
(*                                                                          *)
(* Byte strings and path strings are sequences of tokens.  A token stands   *)
(* for one byte ("/", ".", "-", "=", "CR", "LF", "dq" the double quote,     *)
(* a letter, a digit) or for one fixed multi-byte word that shares no byte  *)
(* sequence with the other tokens ("filename", "files_to_download", ...),   *)
(* so that find/split on tokens agree with find/split on the bytes.        *)
(***************************************************************************)
EXTENDS Integers, Sequences, FiniteSets, TLC

\* ------------------------------------------------------------------------
\* Python string primitives (0-based indices, -1 for "not found")
\* ------------------------------------------------------------------------

SetMin(S) == CHOOSE x \in S : \A y \in S : x <= y

SetMax(S) == CHOOSE x \in S : \A y \in S : x >= y

\* s.startswith(p)
StartsWith(s, p) ==
    /\ Len(p) <= Len(s)
    /\ \A i \in 1..Len(p) : s[i] = p[i]

\* the 0-based offsets at which p occurs in s
Occurrences(s, p) ==
    {i \in 0..(Len(s) - Len(p)) : \A j \in 1..Len(p) : s[i + j] = p[j]}

\* s.find(p, from)
Find(s, p, from) ==
    LET c == {i \in Occurrences(s, p) : i >= from}
    IN  IF c = {} THEN -1 ELSE SetMin(c)

\* s.rfind(p)
RFind(s, p) ==
    LET c == Occurrences(s, p)
    IN  IF c = {} THEN -1 ELSE SetMax(c)

\* p in s
Contains(s, p) == Occurrences(s, p) # {}

\* s[a:b] with Python's treatment of negative and out-of-range indices
PySlice(s, a, b) ==
    LET n  == Len(s)
        a1 == IF a < 0 THEN (IF a + n < 0 THEN 0 ELSE a + n) ELSE (IF a > n THEN n ELSE a)
        b1 == IF b < 0 THEN (IF b + n < 0 THEN 0 ELSE b + n) ELSE (IF b > n THEN n ELSE b)
    IN  IF a1 >= b1 THEN << >> ELSE SubSeq(s, a1 + 1, b1)

\* s[a:]
PyFrom(s, a) == PySlice(s, a, Len(s))

\* s.split(p) for a non-empty separator p
RECURSIVE Split(_, _)
Split(s, p) ==
    LET i == Find(s, p, 0)
    IN  IF i = -1 THEN << s >>
        ELSE << PySlice(s, 0, i) >> \o Split(PyFrom(s, i + Len(p)), p)

\* sep.join(parts)
RECURSIVE Join(_, _)
Join(parts, sep) ==
    IF parts = << >> THEN << >>
    ELSE IF Len(parts) = 1 THEN parts[1]
    ELSE parts[1] \o sep \o Join(Tail(parts), sep)

\* s.lstrip('/')
RECURSIVE LStripSlash(_)
LStripSlash(s) ==
    IF s # << >> /\ s[1] = "/" THEN LStripSlash(Tail(s)) ELSE s

\* s.strip() is non-empty: some token of s is not whitespace
Whitespace == {"CR", "LF", " "}

StripNonEmpty(s) == \E i \in 1..Len(s) : s[i] \notin Whitespace

\* urllib.parse.unquote: a percent escape decodes to the byte it names
Unescape(tok) ==
    CASE tok = "%2F" -> "/"
      [] tok = "%2E" -> "."
      [] tok = "%2C" -> ","
      [] OTHER -> tok

unquote(s) == [i \in 1..Len(s) |-> Unescape(s[i])]

\* ------------------------------------------------------------------------
\* os.path on POSIX
\* ------------------------------------------------------------------------

\* one pass of normpath's loop over the components
RECURSIVE NormComps(_, _, _)
NormComps(comps, acc, rooted) ==
    IF comps = << >> THEN acc
    ELSE LET c == Head(comps)
             rest == Tail(comps)
         IN  IF c = << >> \/ c = << "." >> THEN NormComps(rest, acc, rooted)
             ELSE IF \/ c # << ".", "." >>
                     \/ (~rooted /\ acc = << >>)
                     \/ (acc # << >> /\ acc[Len(acc)] = << ".", "." >>)
                  THEN NormComps(rest, Append(acc, c), rooted)
             ELSE IF acc # << >> THEN NormComps(rest, SubSeq(acc, 1, Len(acc) - 1), rooted)
             ELSE NormComps(rest, acc, rooted)

\* os.path.normpath(path)
normpath(path) ==
    IF path = << >> THEN << "." >>
    ELSE LET rooted == path[1] = "/"
             twoSlashes == /\ StartsWith(path, << "/", "/" >>)
                           /\ ~StartsWith(path, << "/", "/", "/" >>)
             comps == NormComps(Split(path, << "/" >>), << >>, rooted)
             body == Join(comps, << "/" >>)
             res == IF twoSlashes THEN << "/", "/" >> \o body
                    ELSE IF rooted THEN << "/" >> \o body
                    ELSE body
         IN  IF res = << >> THEN << "." >> ELSE res

\* os.path.join(a, b)
pathjoin(a, b) ==
    IF b # << >> /\ b[1] = "/" THEN b
    ELSE IF a = << >> \/ a[Len(a)] = "/" THEN a \o b
    ELSE a \o << "/" >> \o b

\* os.path.basename(p)
basename(p) == PyFrom(p, RFind(p, << "/" >>) + 1)

\* os.path.dirname(p)
dirname(p) ==
    LET i == RFind(p, << "/" >>)
        head == PySlice(p, 0, i + 1)
    IN  IF head # << >> /\ \E k \in 1..Len(head) : head[k] # "/"
        THEN PySlice(head, 0, SetMax({k \in 1..Len(head) : head[k] # "/"}))
        ELSE head

\* ------------------------------------------------------------------------
\* Program constants and state
\* ------------------------------------------------------------------------

\* the serve root, absolute and normalized at startup
SERVE_PATH == << "/", "r" >>

MAX_CACHE_SIZE == 500

ITEMS_PER_PAGE == 50

\* the read size of every streaming loop
CHUNK == 65536

VARIABLES
    THUMBNAIL_CACHE,  \* the thumbnail cache: <<path, mtime>> -> fragment
    CACHE_LOCK,  \* the thread inside a "with CACHE_LOCK" block, or 0
    threads,   \* the worker threads inside get_thumbnail_html: pc and locals
    lookups,   \* per file, the last get_thumbnail_html call that returned (history)
    fs,        \* the filesystem: normalized absolute path -> [kind, data, mtime]
    temps,     \* number of temporary archive files that exist
    req,       \* the request being answered (or the idle marker)
    wire,      \* what the handler wrote to the connection, in order
    accessed,  \* the filesystem locations the handler touched (history)
    served,    \* what the handler of req did, for the properties (history)
    lastUpload,  \* the last upload request answered (history)
    uploads    \* upload requests handled so far; the clock of the file times

cacheVars == << CACHE_LOCK, threads, lookups >>

httpVars == << fs, temps, req, wire, accessed, served, lastUpload, uploads >>

vars == << THUMBNAIL_CACHE, cacheVars, httpVars >>

\* ------------------------------------------------------------------------
\* The filesystem
\* ------------------------------------------------------------------------

Dir == [kind |-> "dir", data |-> << >>, mtime |-> 0]

File(bytes, t) == [kind |-> "file", data |-> bytes, mtime |-> t]

\* os.path.isdir / os.path.isfile of a normalized path (there are no
\* symlinks here, so a normalized path is the location the kernel resolves)
isdir(f, p) == p \in DOMAIN f /\ f[p].kind = "dir"

isfile(f, p) == p \in DOMAIN f /\ f[p].kind = "file"

\* open(p, 'wb') of a normalized path can succeed: p is not a directory and
\* its parent is one
CanWrite(f, p) == ~isdir(f, p) /\ isdir(f, dirname(p))

\* open(p, 'wb'); f.write(bytes), at time t
WriteFile(f, p, bytes, t) ==
    (p :> File(bytes, t)) @@ f

\* os.path.getmtime(p)
getmtime(f, p) == f[p].mtime

\* open(p, 'rb').read()
ReadFile(f, p) == f[p].data

\* os.path.getsize(p)
getsize(f, p) == Len(f[p].data)

\* ------------------------------------------------------------------------
\* The response channel: the sequence of writes on the connection
\* ------------------------------------------------------------------------

StatusEv(code) == [ev |-> "status", name |-> "", value |-> code]

HeaderEv(n, v) == [ev |-> "header", name |-> n, value |-> v]

EndEv == [ev |-> "end", name |-> "", value |-> 0]

BodyEv(bytes) == [ev |-> "body", name |-> "", value |-> bytes]

\* BaseHTTPRequestHandler.send_response / send_header
send_response(w, code) == Append(w, StatusEv(code))

send_header(w, n, v) == Append(w, HeaderEv(n, v))

\* the handler's end_headers: of the two definitions in the class body the
\* later one is the method; it adds a Cache-Control header and ends the block
end_headers(w) ==
    Append(send_header(w, "Cache-Control", "no-cache, no-store, must-revalidate"), EndEv)

\* self.wfile.write(bytes)
wfile_write(w, bytes) == Append(w, BodyEv(bytes))

\* BaseHTTPRequestHandler.send_error(code, message): a complete error response
send_error(w, code, message) ==
    wfile_write(
        end_headers(
            send_header(send_response(w, code), "Content-Type", "text/html;charset=utf-8")),
        << message >>)

\* the status lines written, in order
StatusLines(w) ==
    LET s == SelectSeq(w, LAMBDA e : e.ev = "status")
    IN  [i \in 1..Len(s) |-> s[i].value]

\* the values of the headers called n, in order
HeaderValues(w, n) ==
    LET s == SelectSeq(w, LAMBDA e : e.ev = "header" /\ e.name = n)
    IN  [i \in 1..Len(s) |-> s[i].value]

\* the body bytes written, concatenated
RECURSIVE Flatten(_)
Flatten(chunks) ==
    IF chunks = << >> THEN << >> ELSE Head(chunks).value \o Flatten(Tail(chunks))

BodyBytes(w) == Flatten(SelectSeq(w, LAMBDA e : e.ev = "body"))

\* gzip.compress(data): a framed, invertible encoding of data
gzip(data) == << "gz[" >> \o data \o << "]" >>

\* the loop  "while remaining > 0: chunk = f.read(min(65536, remaining)) ..."
\* over the bytes of data starting at offset pos
RECURSIVE StreamLoop(_, _, _, _)
StreamLoop(w, data, pos, remaining) ==
    IF remaining <= 0 THEN w
    ELSE LET chunk_size == IF CHUNK < remaining THEN CHUNK ELSE remaining
             chunk == PySlice(data, pos, pos + chunk_size)
         IN  IF chunk = << >> THEN w
             ELSE StreamLoop(wfile_write(w, chunk), data, pos + Len(chunk),
                             remaining - Len(chunk))

\* the loop  "while True: chunk = f.read(65536); if not chunk: break ..."
RECURSIVE ReadAllLoop(_, _, _)
ReadAllLoop(w, data, pos) ==
    LET chunk == PySlice(data, pos, pos + CHUNK)
    IN  IF chunk = << >> THEN w
        ELSE ReadAllLoop(wfile_write(w, chunk), data, pos + Len(chunk))

\* ------------------------------------------------------------------------
\* Numbers and MIME types
\* ------------------------------------------------------------------------

Digits == << "0", "1", "2", "3", "4", "5", "6", "7", "8", "9" >>

IsDigit(tok) == \E i \in 1..10 : Digits[i] = tok

DigitValue(tok) == (CHOOSE i \in 1..10 : Digits[i] = tok) - 1

RECURSIVE DecValue(_, _)
DecValue(s, acc) ==
    IF s = << >> THEN acc ELSE DecValue(Tail(s), 10 * acc + DigitValue(Head(s)))

\* int(s): [ok, val]; ok is FALSE where int() raises ValueError
ParseInt(s) ==
    LET neg == s # << >> /\ s[1] = "-"
        d == IF neg THEN Tail(s) ELSE s
    IN  IF d # << >> /\ \A i \in 1..Len(d) : IsDigit(d[i])
        THEN [ok |-> TRUE, val |-> IF neg THEN 0 - DecValue(d, 0) ELSE DecValue(d, 0)]
        ELSE [ok |-> FALSE, val |-> 0]

\* str(n) for n >= 0
RECURSIVE DecString(_)
DecString(n) ==
    IF n < 10 THEN << Digits[n + 1] >> ELSE Append(DecString(n \div 10), Digits[(n % 10) + 1])

\* the extension of a file name: what follows its last "." (none: << >>)
Extension(name) ==
    LET b == basename(name)
        i == RFind(b, << "." >>)
    IN  IF i <= 0 THEN << >> ELSE PyFrom(b, i + 1)

\* mimetypes.guess_type(name)[0], "" for None
guess_type(name) ==
    LET e == Extension(name)
    IN  CASE e = << "txt" >>  -> "text/plain"
          [] e = << "html" >> -> "text/html"
          [] e = << "css" >>  -> "text/css"
          [] e = << "json" >> -> "application/json"
          [] e = << "js" >>   -> "application/javascript"
          [] e = << "jpg" >>  -> "image/jpeg"
          [] e = << "mp4" >>  -> "video/mp4"
          [] e = << "mp3" >>  -> "audio/mpeg"
          [] e = << "pdf" >>  -> "application/pdf"
          [] e = << "zip" >>  -> "application/zip"
          [] OTHER -> ""

\* mime_type.startswith(prefix) on the MIME names above
MimeMajor(m) ==
    CASE m \in {"text/plain", "text/html", "text/css"} -> "text/"
      [] m = "image/jpeg" -> "image/"
      [] m = "video/mp4" -> "video/"
      [] m = "audio/mpeg" -> "audio/"
      [] OTHER -> "application/"

\* ------------------------------------------------------------------------
\* send_file and send_full_file
\* ------------------------------------------------------------------------

\* send_full_file(file_path, file_size, mime_type): the body only
send_full_file(w, data, file_size) == StreamLoop(w, data, 0, file_size)

\* "int(x) if x else default" for the two sides of the header; ok is FALSE
\* where an int() raises
RangeBounds(first, a, last, b, file_size) ==
    IF (first # << >> /\ ~a.ok) \/ (last # << >> /\ ~b.ok)
    THEN [ok |-> FALSE, start |-> 0, end |-> 0]
    ELSE [ok |-> TRUE,
          start |-> IF first # << >> THEN a.val ELSE 0,
          end |-> IF last # << >> THEN b.val ELSE file_size - 1]

\* "range_start, range_end = ...split('-')": ok is FALSE where the unpacking raises
RangeParts(parts, file_size) ==
    IF Len(parts) # 2 THEN [ok |-> FALSE, start |-> 0, end |-> 0]
    ELSE RangeBounds(parts[1], ParseInt(parts[1]), parts[2], ParseInt(parts[2]), file_size)

\* the Range header parsed as the try block does
ParseRange(range_header, file_size) ==
    RangeParts(Split(Join(Split(range_header, << "bytes", "=" >>), << >>), << "-" >>),
               file_size)

\* "Validate range": an out-of-bounds pair becomes the whole file
ValidateRange(r, file_size) ==
    IF r.start >= file_size \/ r.end >= file_size
    THEN [start |-> 0, end |-> file_size - 1]
    ELSE [start |-> r.start, end |-> r.end]

CompressibleTypes ==
    {"text/html", "text/plain", "text/css", "application/json", "application/javascript"}

\* the 206 response for the validated range v
send_partial(w, data, file_size, mime_type, v) ==
    StreamLoop(
        end_headers(
            send_header(
                send_header(
                    send_header(
                        send_header(
                            send_header(send_response(w, 206), "Content-type", mime_type),
                            "Content-Length", v.end - v.start + 1),
                        "Content-Range", << v.start, v.end, file_size >>),
                    "Accept-Ranges", "bytes"),
                "Cache-Control", "public, max-age=86400")),
        data, v.start, v.end - v.start + 1)

\* the range branch of send_file: r is the parsed header
send_range(w, data, file_size, mime_type, r) ==
    IF r.ok THEN send_partial(w, data, file_size, mime_type, ValidateRange(r, file_size))
    ELSE send_full_file(w, data, file_size)

\* the branch of send_file without a Range header
send_whole(w, data, file_size, mime_type) ==
    IF mime_type \in CompressibleTypes
    THEN wfile_write(
            end_headers(
                send_header(
                    send_header(send_response(w, 200), "Content-type", mime_type),
                    "Content-Encoding", "gzip")),
            gzip(data))
    ELSE send_full_file(
            end_headers(
                send_header(
                    send_header(
                        send_header(
                            send_header(send_response(w, 200), "Content-type", mime_type),
                            "Content-Length", file_size),
                        "Accept-Ranges", "bytes"),
                    "Cache-Control", "public, max-age=86400")),
            data, file_size)

\* send_file once the type, the size and the bytes are known
send_file_typed(w, data, file_size, guessed, range_header) ==
    IF range_header # << >>
    THEN send_range(w, data, file_size,
                    IF guessed = "" THEN "application/octet-stream" ELSE guessed,
                    ParseRange(range_header, file_size))
    ELSE send_whole(w, data, file_size,
                    IF guessed = "" THEN "application/octet-stream" ELSE guessed)

\* send_file(file_path) with the request's Range header (<< >>: none)
send_file(w, f, file_path, range_header) ==
    send_file_typed(w, ReadFile(f, file_path), getsize(f, file_path),
                    guess_type(file_path), range_header)

\* ------------------------------------------------------------------------
\* get_thumbnail_html, as one call that runs alone
\* ------------------------------------------------------------------------

Icon(what) == << "icon", what >>

\* the fragment a miss renders; decoded says whether the image decoder or
\* the frame extraction produced a raster (either may fail)
RenderThumbnail(f, file_path, filename, decoded) ==
    LET m == guess_type(file_path)
    IN  IF m # "" /\ MimeMajor(m) = "image/"
        THEN IF decoded THEN << "img" >> \o ReadFile(f, file_path) \o << "alt" >> \o filename
             ELSE Icon("image")
        ELSE IF m # "" /\ MimeMajor(m) = "video/"
        THEN IF decoded THEN << "img" >> \o ReadFile(f, file_path) \o << "alt" >> \o filename
             ELSE Icon("video")
        ELSE IF m # "" /\ MimeMajor(m) = "audio/" THEN Icon("audio")
        ELSE IF m = "application/pdf" THEN Icon("pdf")
        ELSE IF m # "" /\ MimeMajor(m) = "text/" THEN Icon("text")
        ELSE IF m = "application/zip" THEN Icon("archive")
        ELSE Icon("folder")

\* the insert that makes room in a full cache by dropping an entry
CacheInsertEvicting(cache, cache_key, result) ==
    IF Cardinality(DOMAIN cache) < MAX_CACHE_SIZE
    THEN (cache_key :> result) @@ cache
    ELSE (cache_key :> result)
            @@ [k \in DOMAIN cache \ {CHOOSE k \in DOMAIN cache : TRUE} |-> cache[k]]

\* the insert with the capacity test off by one
CacheInsertAtCap(cache, cache_key, result) ==
    IF Cardinality(DOMAIN cache) <= MAX_CACHE_SIZE
    THEN (cache_key :> result) @@ cache
    ELSE cache

\* "if len(THUMBNAIL_CACHE) < MAX_CACHE_SIZE: THUMBNAIL_CACHE[cache_key] = result"
CacheInsert(cache, cache_key, result) ==
    IF Cardinality(DOMAIN cache) < MAX_CACHE_SIZE
    THEN (cache_key :> result) @@ cache
    ELSE cache

\* the lookup keyed by the path alone
get_thumbnail_html_ByPath(cache, f, file_path, filename, decoded) ==
    LET cache_key == << file_path, 0 >>
    IN  IF cache_key \in DOMAIN cache
        THEN [cache |-> cache, result |-> cache[cache_key], rendered |-> FALSE]
        ELSE LET result == RenderThumbnail(f, file_path, filename, decoded)
             IN  [cache |-> CacheInsert(cache, cache_key, result),
                  result |-> result, rendered |-> TRUE]

\* get_thumbnail_html(file_path, filename): [cache, result, rendered]
get_thumbnail_html(cache, f, file_path, filename, decoded) ==
    LET cache_key == << file_path, getmtime(f, file_path) >>
    IN  IF cache_key \in DOMAIN cache
        THEN [cache |-> cache, result |-> cache[cache_key], rendered |-> FALSE]
        ELSE LET result == RenderThumbnail(f, file_path, filename, decoded)
             IN  [cache |-> CacheInsert(cache, cache_key, result),
                  result |-> result, rendered |-> TRUE]

\* ------------------------------------------------------------------------
\* list_directory
\* ------------------------------------------------------------------------

\* the tokens of file names in code-point order
CodeOrder ==
    << ".", "0", "1", "2", "3", "4", "5", "6", "7", "8", "9", "A", "B",
       "a", "b", "css", "d", "e", "f", "g", "html", "jpg", "js", "json",
       "mp3", "mp4", "n", "pdf", "r", "s", "t", "txt", "x", "zip" >>

\* the place of each token in that order
CodeTable ==
    [tok \in {CodeOrder[i] : i \in 1..Len(CodeOrder)} |->
        CHOOSE i \in 1..Len(CodeOrder) : CodeOrder[i] = tok] @@ << >>

Code(tok) == IF tok \in DOMAIN CodeTable THEN CodeTable[tok] ELSE 0

\* str.lower()
LowerTok(tok) == CASE tok = "A" -> "a" [] tok = "B" -> "b" [] OTHER -> tok

lower(s) == [i \in 1..Len(s) |-> LowerTok(s[i])]

\* a < b on strings
RECURSIVE StrLess(_, _)
StrLess(a, b) ==
    IF b = << >> THEN FALSE
    ELSE IF a = << >> THEN TRUE
    ELSE IF Code(Head(a)) # Code(Head(b)) THEN Code(Head(a)) < Code(Head(b))
    ELSE StrLess(Tail(a), Tail(b))

\* the sort key of list_directory: (not isdir, name.lower())
SortKey(f, path, x) == [dir |-> isdir(f, pathjoin(path, x)), name |-> lower(x)]

\* key a sorts before key b
KeyLess(a, b) == IF a.dir # b.dir THEN a.dir ELSE StrLess(a.name, b.name)

\* the place a stable sort gives to element i of a list with these keys: behind
\* every element with a smaller key and every earlier element with an equal key
SortRank(keys, i) ==
    Cardinality({j \in 1..Len(keys) :
                    KeyLess(keys[j], keys[i]) \/ (j < i /\ ~KeyLess(keys[i], keys[j]))}) + 1

\* the list entries put in the order of ranks
Permute(entries, ranks) ==
    << >> \o [p \in 1..Len(entries) |-> entries[CHOOSE i \in 1..Len(entries) : ranks[i] = p]]

\* the list entries with its keys, sorted
SortByKeys(entries, keys) ==
    Permute(entries, << >> \o [i \in 1..Len(entries) |-> SortRank(keys, i)])

\* entries.sort(key=...)
SortEntries(f, path, entries) ==
    SortByKeys(entries, << >> \o [i \in 1..Len(entries) |-> SortKey(f, path, entries[i])])

\* the names of the children of directory path
Children(f, path) ==
    {basename(q) : q \in {q \in DOMAIN f : q # path /\ q # << "/" >> /\ dirname(q) = path}}

\* the names of S by their place among the names in ascending code-point order
PlaceOf(S) == [x \in S |-> Cardinality({y \in S : StrLess(y, x)}) + 1] @@ << >>

NamesByPlace(S, place) ==
    << >> \o [p \in 1..Cardinality(S) |-> CHOOSE x \in S : place[x] = p]

\* a set of names as a sequence in ascending code-point order
Ascending(S) == NamesByPlace(S, PlaceOf(S))

Reverse(s) == << >> \o [i \in 1..Len(s) |-> s[Len(s) + 1 - i]]

\* os.listdir(path): the children in an order the filesystem chooses
listdir(f, path, reversed) ==
    IF reversed THEN Reverse(Ascending(Children(f, path))) ELSE Ascending(Children(f, path))

\* the components of a normalized absolute path
Components(p) == SelectSeq(Split(p, << "/" >>), LAMBDA c : c # << >>)

RECURSIVE CommonLen(_, _)
CommonLen(a, b) ==
    IF a = << >> \/ b = << >> \/ Head(a) # Head(b) THEN 0
    ELSE 1 + CommonLen(Tail(a), Tail(b))

\* os.path.relpath(path, start) for normalized absolute paths
relpath(path, start) ==
    LET pc == Components(path)
        sc == Components(start)
        n == CommonLen(pc, sc)
        ups == [i \in 1..(Len(sc) - n) |-> << ".", "." >>]
        rel == ups \o PyFrom(pc, n)
    IN  IF rel = << >> THEN << "." >> ELSE Join(rel, << "/" >>)

\* one file entry of the page, its thumbnail t resolved: [cache, html]
RenderFile(f, full_path, entry, t) ==
    [cache |-> t.cache,
     html |-> << "<item>" >> \o entry \o << "size" >> \o DecString(getsize(f, full_path))
                 \o t.result \o << "</item>" >>]

\* the body of the loop over paginated_entries for one entry: [cache, html]
RenderEntry(f, cache, path, entry, decoded) ==
    IF isdir(f, pathjoin(path, entry))
    THEN [cache |-> cache, html |-> << "<item-dir>" >> \o entry \o << "</item>" >>]
    ELSE RenderFile(f, pathjoin(path, entry), entry,
                    get_thumbnail_html(cache, f, pathjoin(path, entry), entry, decoded))

\* the loop over paginated_entries, run on the entries lo..hi in order (the
\* first half, then the second half on the cache the first half left)
RECURSIVE RenderRange(_, _, _, _, _, _, _)
RECURSIVE RenderRest(_, _, _, _, _, _, _)
RenderRest(f, done, path, entries, lo, hi, decoded) ==
    [RenderRange(f, done.cache, path, entries, lo, hi, decoded) EXCEPT
        !.html = done.html \o @]

RenderRange(f, cache, path, entries, lo, hi, decoded) ==
    IF lo > hi THEN [cache |-> cache, html |-> << >>]
    ELSE IF lo = hi THEN RenderEntry(f, cache, path, entries[lo], decoded)
    ELSE CHOOSE r \in
            {RenderRest(f, done, path, entries, (lo + hi) \div 2 + 1, hi, decoded) :
                done \in {RenderRange(f, cache, path, entries, lo, (lo + hi) \div 2, decoded)}} :
            TRUE

\* the page's entries rendered in order behind html; file entries consult
\* the cache
RenderEntries(f, cache, path, entries, decoded, html) ==
    [RenderRange(f, cache, path, entries, 1, Len(entries), decoded) EXCEPT
        !.html = html \o @]

\* the slice with the page number taken as zero-based
PageSliceFromZero(entries, page) ==
    PySlice(entries, page * ITEMS_PER_PAGE, page * ITEMS_PER_PAGE + ITEMS_PER_PAGE)

\* "entries[start_idx:end_idx]" of page
PageSlice(entries, page) ==
    PySlice(entries, (page - 1) * ITEMS_PER_PAGE, (page - 1) * ITEMS_PER_PAGE + ITEMS_PER_PAGE)

\* total_pages for n entries
PageCount(n) == (n + ITEMS_PER_PAGE - 1) \div ITEMS_PER_PAGE

\* the head of the document: title, and breadcrumb and parent link below the root
ListingHead(rel) ==
    IF rel = << "." >> THEN << "<html>", "<title>", "/" >>
    ELSE << "<html>", "<title>", "/" >> \o rel \o << "<breadcrumb>", "<parent>" >>

\* the pagination controls, or the item count of a single page
ListingFoot(page, total_pages, n) ==
    IF total_pages > 1
    THEN << "<pagination>", "page" >> \o DecString(page) \o << "of" >> \o DecString(total_pages)
    ELSE << "showing" >> \o DecString(n)

\* the response of list_directory for the document html
send_listing(w, html, compressed_html) ==
    wfile_write(
        wfile_write(
            end_headers(
                send_header(
                    send_header(
                        send_header(send_response(w, 200),
                                    "Content-type", "text/html; charset=utf-8"),
                        "Content-Encoding", "gzip"),
                    "Content-Length", Len(compressed_html))),
            compressed_html),
        html)

\* list_directory from the rendered items on: [wire, cache, ...]
ListingOutcome(w, items, foot, paginated_entries, entries) ==
    [wire |-> send_listing(w, items.html \o foot \o << "</html>" >>,
                           gzip(items.html \o foot \o << "</html>" >>)),
     cache |-> items.cache,
     paginated_entries |-> paginated_entries,
     entries |-> entries,
     total_pages |-> PageCount(Len(entries))]

\* list_directory from the page slice on
ListPage(w, f, cache, path, page, decoded, entries, paginated_entries) ==
    ListingOutcome(w,
        RenderEntries(f, cache, path, paginated_entries, decoded,
                      ListingHead(relpath(path, SERVE_PATH))),
        ListingFoot(page, PageCount(Len(entries)), Len(entries)),
        paginated_entries, entries)

\* list_directory from the sorted entries on
ListSorted(w, f, cache, path, page, decoded, entries) ==
    ListPage(w, f, cache, path, page, decoded, entries, PageSlice(entries, page))

\* list_directory(path, page): [wire, cache, paginated_entries, entries, total_pages]
list_directory(w, f, cache, path, page, reversed, decoded) ==
    ListSorted(w, f, cache, path, page, decoded,
               SortEntries(f, path, listdir(f, path, reversed)))

\* ------------------------------------------------------------------------
\* do_GET
\* ------------------------------------------------------------------------

\* what one handler run did: the handler that produced the response, the
\* method that took the request over (entry) and its locals (history for the
\* properties; the code keeps none of it)
NoServed ==
    [handler |-> "none", entry |-> "none", fs_path |-> << >>, page |-> 0, entries |-> << >>,
     paginated_entries |-> << >>, total_pages |-> 0, files_list |-> << >>,
     archive |-> << >>, uploaded_count |-> 0, written |-> << >>]

\* the outcome of a handler run
Outcome(w, f, cache, t, acc, sv) ==
    [wire |-> w, fs |-> f, cache |-> cache, temps |-> t, accessed |-> acc, served |-> sv]

\* the containment ("Security") check
InsideRoot(p) == StartsWith(normpath(p), normpath(SERVE_PATH))

\* the request path resolved against the serve root
ResolveTarget(path) == normpath(pathjoin(SERVE_PATH, LStripSlash(path)))

\* the page number accepted from zero on
PageParamFromZero(n) == IF n.ok /\ n.val >= 0 THEN n.val ELSE 1

\* "page = int(param.split('=')[1])", 1 where it raises or is below 1
PageParam(n) == IF n.ok /\ n.val >= 1 THEN n.val ELSE 1

\* the loop over the query parameters that sets page
RECURSIVE ParsePage(_, _)
ParsePage(params, page) ==
    IF params = << >> THEN page
    ELSE IF StartsWith(Head(params), << "page", "=" >>)
    THEN ParsePage(Tail(params), PageParam(ParseInt(Split(Head(params), << "=" >>)[2])))
    ELSE ParsePage(Tail(params), page)

\* the page number do_GET takes from the unquoted request target
PageOf(target) ==
    IF Contains(target, << "?" >>)
    THEN ParsePage(Split(Split(target, << "?" >>)[2], << "&" >>), 1)
    ELSE 1

\* the locals of a do_GET run
GetServed(handler, fs_path, page) ==
    [NoServed EXCEPT !.handler = handler, !.entry = "do_GET", !.fs_path = fs_path,
                     !.page = page]

\* the directory branch of do_GET: l is what list_directory returned
GetListed(f, t, fs_path, page, l) ==
    Outcome(l.wire, f, l.cache, t,
            {fs_path} \cup {pathjoin(fs_path, l.entries[i]) : i \in 1..Len(l.entries)},
            [GetServed("list_directory", fs_path, page) EXCEPT
                !.entries = l.entries,
                !.paginated_entries = l.paginated_entries,
                !.total_pages = l.total_pages])

\* do_GET from the "Security check" on
GetResolved(f, cache, t, fs_path, page, range_header, reversed, decoded) ==
    IF ~InsideRoot(fs_path)
    THEN Outcome(send_error(<< >>, 403, "Access denied"), f, cache, t, {},
                 GetServed("send_error", fs_path, page))
    ELSE IF isdir(f, fs_path)
    THEN GetListed(f, t, fs_path, page,
                   list_directory(<< >>, f, cache, fs_path, page, reversed, decoded))
    ELSE IF isfile(f, fs_path)
    THEN Outcome(send_file(<< >>, f, fs_path, range_header), f, cache, t, {fs_path},
                 GetServed("send_file", fs_path, page))
    ELSE Outcome(send_error(<< >>, 404, "File not found"), f, cache, t, {fs_path},
                 GetServed("send_error", fs_path, page))

\* do_GET from the unquoted request target on
GetTarget(f, cache, t, target, range_header, reversed, decoded) ==
    GetResolved(f, cache, t, ResolveTarget(Split(target, << "?" >>)[1]), PageOf(target),
                range_header, reversed, decoded)

\* do_GET for request target self_path and Range header range_header;
\* reversed and decoded are the choices of the filesystem and the decoders
do_GET(f, cache, t, self_path, range_header, reversed, decoded) ==
    GetTarget(f, cache, t, unquote(self_path), range_header, reversed, decoded)

\* ------------------------------------------------------------------------
\* Downloads: handle_download, send_file_download, send_zip_download
\* ------------------------------------------------------------------------

\* send_file_download(file_path, file_name)
send_file_download(w, f, file_path, file_name) ==
    ReadAllLoop(
        end_headers(
            send_header(
                send_header(
                    send_header(send_response(w, 200),
                                "Content-type", "application/octet-stream"),
                    "Content-Disposition", << "attachment", "filename" >> \o file_name),
                "Content-Length", getsize(f, file_path))),
        ReadFile(f, file_path), 0)

\* the archive name taken as given
ArcNameAsGiven(file_name) == file_name

\* the name zipfile stores for arcname: normalized, leading separators removed
ArcName(file_name) == LStripSlash(normpath(file_name))

\* the loop of send_zip_download over files_list: the entries added to the
\* archive, as [name, data]
RECURSIVE ZipEntries(_, _, _, _)
RECURSIVE ZipAdd(_, _, _, _, _)
ZipAdd(f, base_path, files_list, acc, file_path) ==
    IF InsideRoot(file_path) /\ isfile(f, file_path)
    THEN ZipEntries(f, base_path, Tail(files_list),
                    Append(acc, [name |-> ArcName(Head(files_list)),
                                 data |-> ReadFile(f, file_path)]))
    ELSE ZipEntries(f, base_path, Tail(files_list), acc)

ZipEntries(f, base_path, files_list, acc) ==
    IF files_list = << >> THEN acc
    ELSE ZipAdd(f, base_path, files_list, acc,
                normpath(pathjoin(base_path, Head(files_list))))

\* the locations the loop of send_zip_download touches
ZipAccessed(base_path, files_list) ==
    {q \in {normpath(pathjoin(base_path, files_list[i])) : i \in 1..Len(files_list)} :
        InsideRoot(q)}

\* the bytes of a deflate archive holding entries
RECURSIVE ZipBytes(_)
ZipBytes(entries) ==
    IF entries = << >> THEN << "PK-end" >>
    ELSE << "PK" >> \o Head(entries).name \o << "deflate[" >> \o Head(entries).data
            \o << "]" >> \o ZipBytes(Tail(entries))

\* the status line and headers of the archive response
ZipHeaders(file_size) ==
    end_headers(
        send_header(
            send_header(
                send_header(send_response(<< >>, 200), "Content-type", "application/zip"),
                "Content-Disposition", << "attachment", "filename", "download.zip" >>),
            "Content-Length", file_size))

\* send_zip_download once the archive holds entries, whose bytes are bytes
ZipSend(f, cache, t, acc, entries, bytes, fault, sv) ==
    IF fault = "build" /\ entries # << >>
    THEN \* the temporary file was created; the exception skips os.remove
         Outcome(send_error(<< >>, 500, "ZIP creation failed"), f, cache, t + 1, acc, sv)
    ELSE IF fault = "send"
    THEN Outcome(send_error(ZipHeaders(Len(bytes)), 500, "ZIP creation failed"),
                 f, cache, t + 1, acc, sv)
    ELSE \* created, streamed, removed
         Outcome(ReadAllLoop(ZipHeaders(Len(bytes)), bytes, 0), f, cache, (t + 1) - 1, acc, sv)

\* send_zip_download from the end of the loop on
ZipBuilt(f, cache, t, base_path, files_list, fault, sv, entries) ==
    ZipSend(f, cache, t, ZipAccessed(base_path, files_list), entries, ZipBytes(entries),
            fault, [sv EXCEPT !.handler = "send_zip_download", !.archive = entries])

\* send_zip_download(base_path, files_list).  fault names the step that
\* raises: "build" (reading a file into the archive fails), "send" (the
\* client is gone when the body is written), or "none"
send_zip_download(f, cache, t, base_path, files_list, fault, sv) ==
    ZipBuilt(f, cache, t, base_path, files_list, fault, sv,
             ZipEntries(f, base_path, files_list, << >>))

\* "[url_unquote(f) for f in files_section.split(',') if f.strip()]"
RECURSIVE FilesList(_)
FilesList(pieces) ==
    IF pieces = << >> THEN << >>
    ELSE IF StripNonEmpty(Head(pieces))
         THEN << unquote(Head(pieces)) >> \o FilesList(Tail(pieces))
         ELSE FilesList(Tail(pieces))

DownloadMarker == << "files_to_download", "=" >>

\* the locals of a handle_download run
DownloadServed(handler, fs_path, files_list) ==
    [NoServed EXCEPT !.handler = handler, !.entry = "handle_download",
                     !.fs_path = fs_path, !.files_list = files_list]

\* the "Single file download" branch: file_path is the one requested location
DownloadSingle(f, cache, t, fs_path, files_list, fault, file_path) ==
    IF ~InsideRoot(file_path)
    THEN Outcome(send_error(<< >>, 403, "Access denied"), f, cache, t, {},
                 DownloadServed("send_error", fs_path, files_list))
    ELSE IF isfile(f, file_path)
    THEN Outcome(send_file_download(<< >>, f, file_path, files_list[1]),
                 f, cache, t, {file_path},
                 DownloadServed("send_file_download", fs_path, files_list))
    ELSE send_zip_download(f, cache, t, fs_path, files_list, fault,
                           DownloadServed("none", fs_path, files_list))

\* handle_download from "if not files_list" on
DownloadList(f, cache, t, fs_path, files_list, fault) ==
    IF files_list = << >>
    THEN Outcome(send_error(<< >>, 400, "No files selected"), f, cache, t, {},
                 DownloadServed("send_error", fs_path, files_list))
    ELSE IF Len(files_list) = 1
    THEN DownloadSingle(f, cache, t, fs_path, files_list, fault,
                        normpath(pathjoin(fs_path, files_list[1])))
    ELSE send_zip_download(f, cache, t, fs_path, files_list, fault,
                           DownloadServed("none", fs_path, files_list))

\* handle_download(body_str, path)
handle_download(f, cache, t, body_str, path, fault) ==
    DownloadList(f, cache, t, ResolveTarget(path),
                 FilesList(Split(Split(Split(body_str, DownloadMarker)[2], << "&" >>)[1],
                                 << "," >>)),
                 fault)

\* ------------------------------------------------------------------------
\* do_POST: dispatch and the multipart upload parser
\* ------------------------------------------------------------------------

CRLF == << "CR", "LF" >>

FilenameMarker == << "filename", "=" >>

\* "part[filename_start:filename_end]"
PartFilename(part, filename_start) ==
    PySlice(part, filename_start, Find(part, << "dq" >>, filename_start))

\* one segment of the body: [skip, filename, file_content]
ParsePart(part) ==
    IF ~Contains(part, FilenameMarker)
    THEN [skip |-> TRUE, filename |-> << >>, file_content |-> << >>]
    ELSE [skip |-> FALSE,
          filename |-> PartFilename(part, Find(part, FilenameMarker \o << "dq" >>, 0) + 3),
          file_content |-> PySlice(part, Find(part, CRLF \o CRLF, 0) + 4, RFind(part, CRLF))]

\* the loop over parts[1:-1]: [fs, count, written, accessed, failed]
RECURSIVE SaveParts(_, _, _, _)
RECURSIVE SavePart(_, _, _, _, _, _)
\* p is the parsed head of parts, file_path the location open() resolves
\* os.path.join(fs_path, basename) to
SavePart(parts, fs_path, now, st, p, file_path) ==
    IF p.skip \/ p.filename = << >>
    THEN SaveParts(Tail(parts), fs_path, now, st)
    ELSE IF ~CanWrite(st.fs, file_path)
    THEN [st EXCEPT !.failed = TRUE, !.accessed = @ \cup {file_path}]
    ELSE SaveParts(Tail(parts), fs_path, now,
                   [st EXCEPT !.fs = WriteFile(@, file_path, p.file_content, now),
                              !.count = @ + 1,
                              !.written = Append(@, file_path),
                              !.accessed = @ \cup {file_path}])

\* the part stored under the submitted name, not under its basename
SavePartAtName(parts, fs_path, now, st, p) ==
    SavePart(parts, fs_path, now, st, p, normpath(pathjoin(fs_path, p.filename)))

\* "file_path = os.path.join(fs_path, os.path.basename(filename))"
SavePartAt(parts, fs_path, now, st, p) ==
    SavePart(parts, fs_path, now, st, p, normpath(pathjoin(fs_path, basename(p.filename))))

SaveParts(parts, fs_path, now, st) ==
    IF parts = << >> \/ st.failed THEN st
    ELSE SavePartAt(parts, fs_path, now, st, ParsePart(Head(parts)))

\* the locals of an upload run
UploadServed(handler, fs_path) ==
    [NoServed EXCEPT !.handler = handler, !.entry = "do_POST", !.fs_path = fs_path]

\* the end of the try block: the success response, or the 500 of the except
UploadOutcome(cache, t, fs_path, st) ==
    Outcome(IF st.failed THEN send_error(<< >>, 500, "Upload failed")
            ELSE wfile_write(
                    end_headers(
                        send_header(send_response(<< >>, 200), "Content-type", "text/plain")),
                    << "uploaded" >> \o DecString(st.count)),
            st.fs, cache, t, st.accessed,
            [UploadServed("upload", fs_path) EXCEPT
                !.uploaded_count = st.count, !.written = st.written])

\* "parts = body.split(b'--' + boundary)" and the loop
UploadParts(f, cache, t, fs_path, parts, now) ==
    UploadOutcome(cache, t, fs_path,
        SaveParts(PySlice(parts, 1, -1), fs_path, now,
                  [fs |-> f, count |-> 0, written |-> << >>, accessed |-> {fs_path},
                   failed |-> FALSE]))

\* "boundary = content_type.split('boundary=')[1]"
UploadBoundary(f, cache, t, fs_path, pieces, body, now) ==
    IF Len(pieces) < 2
    THEN Outcome(send_error(<< >>, 500, "Upload failed"), f, cache, t,
                 {fs_path}, UploadServed("send_error", fs_path))
    ELSE UploadParts(f, cache, t, fs_path, Split(body, << "-", "-" >> \o pieces[2]), now)

\* the upload branch without the test of the content type
handle_upload_AnyType(f, cache, t, fs_path, content_type, body, now) ==
    IF ~isdir(f, fs_path)
    THEN Outcome(send_error(<< >>, 400, "Target must be a directory"), f, cache, t,
                 {fs_path}, UploadServed("send_error", fs_path))
    ELSE UploadBoundary(f, cache, t, fs_path,
                        Split(content_type, << "boundary", "=" >>), body, now)

\* the upload branch of do_POST, from "if not os.path.isdir(fs_path)" on
handle_upload(f, cache, t, fs_path, content_type, body, now) ==
    IF ~isdir(f, fs_path)
    THEN Outcome(send_error(<< >>, 400, "Target must be a directory"), f, cache, t,
                 {fs_path}, UploadServed("send_error", fs_path))
    ELSE IF ~Contains(content_type, << "multipart/form-data" >>)
    THEN Outcome(send_error(<< >>, 400, "Invalid content type"), f, cache, t,
                 {fs_path}, UploadServed("send_error", fs_path))
    ELSE UploadBoundary(f, cache, t, fs_path,
                        Split(content_type, << "boundary", "=" >>), body, now)

\* do_POST from the "Security check" on
PostResolved(f, cache, t, path, fs_path, content_type, body, fault, now) ==
    IF ~InsideRoot(fs_path)
    THEN Outcome(send_error(<< >>, 403, "Access denied"), f, cache, t, {},
                 UploadServed("send_error", fs_path))
    ELSE IF Contains(body, DownloadMarker)
    THEN handle_download(f, cache, t, body, path, fault)
    ELSE handle_upload(f, cache, t, fs_path, content_type, body, now)

\* do_POST from the unquoted path without its query string on
PostPath(f, cache, t, path, content_type, body, fault, now) ==
    PostResolved(f, cache, t, path, ResolveTarget(path), content_type, body, fault, now)

\* do_POST for request target self_path, Content-Type content_type and body
do_POST(f, cache, t, self_path, content_type, body, fault, now) ==
    PostPath(f, cache, t, Split(unquote(self_path), << "?" >>)[1],
             content_type, body, fault, now)

\* ------------------------------------------------------------------------
\* The clients: the requests the page's scripts and any HTTP client send
\* ------------------------------------------------------------------------

\* the boundary token of the multipart bodies
Boundary == << "b" >>

MultipartType == << "multipart/form-data", ";", " ", "boundary", "=" >> \o Boundary

PlainType == << "application/x-www-form-urlencoded" >>

\* one part of a form: a file part (with a filename) or a plain field
FilePart(name, data) == [file |-> TRUE, filename |-> name, data |-> data]

FieldPart(data) == [file |-> FALSE, filename |-> << >>, data |-> data]

\* the encoding of one part of FormData
EncodePart(p) ==
    << "-", "-" >> \o Boundary \o CRLF
      \o << "Content-Disposition: form-data; name", "=", "dq", "files", "dq" >>
      \o (IF p.file
          THEN << ";", " " >> \o FilenameMarker \o << "dq" >> \o p.filename \o << "dq" >>
                 \o CRLF \o << "Content-Type: application/octet-stream" >>
          ELSE << >>)
      \o CRLF \o CRLF \o p.data \o CRLF

\* the multipart/form-data body of uploadFiles
RECURSIVE MultipartBody(_)
MultipartBody(parts) ==
    IF parts = << >> THEN << "-", "-" >> \o Boundary \o << "-", "-" >> \o CRLF
    ELSE EncodePart(Head(parts)) \o MultipartBody(Tail(parts))

\* the body of downloadSelected: the names, comma-separated
DownloadBody(names) == DownloadMarker \o Join(names, << "," >>)

\* all sequences over S of length at most n
SeqsUpTo(S, n) == UNION {[1..k -> S] : k \in 0..n}

IdleRequest == [method |-> "idle"]

GetRequest(target, range) ==
    [method |-> "GET", self_path |-> target, range |-> range]

UploadRequest(target, ctype, parts) ==
    [method |-> "POST", kind |-> "upload", self_path |-> target,
     content_type |-> ctype, parts |-> parts, body |-> MultipartBody(parts)]

DownloadRequest(target, names, fault) ==
    [method |-> "POST", kind |-> "download", self_path |-> target,
     content_type |-> PlainType, names |-> names, body |-> DownloadBody(names),
     fault |-> fault]

\* ------------------------------------------------------------------------
\* The request machine: one request is answered at a time
\* ------------------------------------------------------------------------

\* upload requests per run
MaxUploads == 1

\* names per download selection
MaxNames == 2

\* temporary archive files a run may leak
MaxTemps == 1

\* path strings used by the requests
PRoot == << "/" >>

PF == << "/", "f" >>

PD == << "/", "d" >>

PMissing == << "/", "n" >>

PSiblingFile == << "/", ".", ".", "/", "r", "x", "/", "s" >>

PSiblingDir == << "/", ".", ".", "/", "r", "x" >>

POutside == << "/", ".", ".", "/", "e" >>

PEscaped == << "/", "%2E", "%2E", "/", "e" >>

PDotDot == << "/", "d", "/", ".", ".", "/", "f" >>

PPage2 == << "/", "?", "page", "=", "2" >>

GetTargets ==
    {PRoot, PF, PD, PMissing, PSiblingFile, PSiblingDir, POutside, PEscaped, PDotDot, PPage2}

DownloadTargets == {PRoot, PD, PSiblingDir, POutside}

\* file names a download selection may hold
DownloadNames ==
    { << "f" >>, << "g" >>, << "n" >>, << "d" >>, << ".", "/", "f" >>,
      << ".", ".", "/", "r", "x", "/", "s" >>,
      << ".", ".", "/", ".", ".", "/", "e" >> }

Selections == SeqsUpTo(DownloadNames, MaxNames)

Faults == {"none", "build", "send"}

UploadTargets == {PRoot, PD, PF, PSiblingDir, POutside}

UploadBatches ==
    { << FilePart(<< "a" >>, << "x" >>) >>,
      << FilePart(<< "f" >>, << >>) >>,
      << FilePart(<< "a" >>, << "x" >>), FilePart(<< "f" >>, << >>) >>,
      << FilePart(<< "d" >>, << "x" >>), FilePart(<< "a" >>, << "x" >>) >> }

\* the filesystem the server starts on: the serve root /r with two files and
\* a subdirectory, a sibling directory /rx and a file /e outside the root
InitFs ==
    LET paths == { << "/" >>, << "/", "r" >>, << "/", "r", "/", "d" >>,
                   << "/", "r", "/", "f" >>, << "/", "r", "/", "g" >>,
                   << "/", "r", "/", "d", "/", "f" >>,
                   << "/", "r", "x" >>, << "/", "r", "x", "/", "s" >>,
                   << "/", "e" >> }
    IN  [q \in paths |->
            CASE q = << "/", "r", "/", "f" >> -> File(<< "x", "CR" >>, 0)
              [] q = << "/", "r", "/", "g" >> -> File(<< "LF" >>, 0)
              [] q = << "/", "r", "/", "d", "/", "f" >> -> File(<< "-" >>, 0)
              [] q = << "/", "r", "x", "/", "s" >> -> File(<< "s" >>, 0)
              [] q = << "/", "e" >> -> File(<< "e" >>, 0)
              [] OTHER -> Dir]

\* worker threads that may be inside get_thumbnail_html at once
MaxThreads == 2

Threads == 1..MaxThreads

IdleThread ==
    [pc |-> "idle", file_path |-> << >>, cache_key |-> << >>, result |-> << >>,
     hit |-> FALSE]

\* no thread is inside get_thumbnail_html
InitThreads ==
    /\ CACHE_LOCK = 0
    /\ threads = [t \in Threads |-> IdleThread]
    /\ lookups = << >>

\* no request is being answered
InitIdle ==
    /\ temps = 0
    /\ req = IdleRequest
    /\ wire = << >>
    /\ accessed = {}
    /\ served = NoServed
    /\ lastUpload = IdleRequest
    /\ uploads = 0

\* the handler's outcome o becomes the state
Answer(r, o) ==
    /\ req' = r
    /\ wire' = o.wire
    /\ fs' = o.fs
    /\ THUMBNAIL_CACHE' = o.cache
    /\ temps' = o.temps
    /\ accessed' = o.accessed
    /\ served' = o.served
    /\ UNCHANGED cacheVars

\* a GET request is handled
Get ==
    /\ req = IdleRequest
    /\ \E target \in GetTargets, reversed \in BOOLEAN :
          \E o \in {do_GET(fs, THUMBNAIL_CACHE, temps, target, << >>, reversed, TRUE)} :
              Answer(GetRequest(target, << >>), o)
    /\ UNCHANGED << uploads, lastUpload >>

\* a download POST is handled
Download ==
    /\ req = IdleRequest
    /\ \E target \in DownloadTargets, names \in Selections, fault \in Faults :
          /\ fault # "none" => temps < MaxTemps
          /\ \E o \in {do_POST(fs, THUMBNAIL_CACHE, temps, target, PlainType,
                      DownloadBody(names), fault, uploads)} :
                 Answer(DownloadRequest(target, names, fault), o)
    /\ UNCHANGED << uploads, lastUpload >>

\* an upload POST is handled
Upload ==
    /\ req = IdleRequest
    /\ uploads < MaxUploads
    /\ \E target \in UploadTargets, ctype \in {MultipartType, PlainType},
          parts \in UploadBatches :
          \E o \in {do_POST(fs, THUMBNAIL_CACHE, temps, target, ctype, MultipartBody(parts),
                   "none", uploads + 1)} :
              Answer(UploadRequest(target, ctype, parts), o)
    /\ uploads' = uploads + 1
    /\ UNCHANGED lastUpload

\* the handler has returned and the connection is closed
Finish ==
    /\ req # IdleRequest
    /\ req' = IdleRequest
    /\ wire' = << >>
    /\ accessed' = {}
    /\ served' = NoServed
    /\ UNCHANGED << THUMBNAIL_CACHE, cacheVars, fs, temps, uploads, lastUpload >>

Init ==
    /\ THUMBNAIL_CACHE = << >>
    /\ fs = InitFs
    /\ InitThreads
    /\ InitIdle

Next ==
    \/ Get
    \/ Download
    \/ Upload
    \/ Finish

Spec == Init /\ [][Next]_vars

\* ------------------------------------------------------------------------
\* Uploads with arbitrary payloads, and the download of what was uploaded
\* ------------------------------------------------------------------------

\* bytes per uploaded payload
MaxPayload == 2

\* the bytes a payload is made of: CR, LF, "-", "=", the boundary's byte and
\* the name of the download form field
PayloadBytes == {"CR", "LF", "-", "=", "b", "files_to_download"}

Payloads == SeqsUpTo(PayloadBytes, MaxPayload)

UploadNames == { << "a" >>, << "f" >> }

\* the forms uploadFiles may submit: one file; two files (the second one
\* short); a plain field before a file; a file part with an empty filename
\* before a file
UploadForms ==
    UNION {
        { << FilePart(n, B) >> : n \in UploadNames }
        \cup { << FilePart(n, B), FilePart(m, C) >> :
                  n \in UploadNames, m \in UploadNames, C \in { << >>, << "x" >> } }
        \cup { << FieldPart(B), FilePart(<< "a" >>, << "x" >>) >>,
               << FilePart(<< >>, B), FilePart(<< "a" >>, << "x" >>) >> }
        : B \in Payloads }

\* a form is uploaded into a directory of the root
UploadPayload ==
    /\ req = IdleRequest
    /\ uploads < MaxUploads
    /\ \E target \in {PRoot, PD}, parts \in UploadForms :
          /\ \E o \in {do_POST(fs, THUMBNAIL_CACHE, temps, target, MultipartType,
                      MultipartBody(parts), "none", uploads + 1)} :
                 Answer(UploadRequest(target, MultipartType, parts), o)
          /\ lastUpload' = UploadRequest(target, MultipartType, parts)
    /\ uploads' = uploads + 1

\* a file of the last upload is downloaded from the directory it went to
DownloadUploaded ==
    /\ req = IdleRequest
    /\ lastUpload # IdleRequest
    /\ \E i \in 1..Len(lastUpload.parts) :
          /\ lastUpload.parts[i].file
          /\ lastUpload.parts[i].filename # << >>
          /\ \E o \in {do_POST(fs, THUMBNAIL_CACHE, temps, lastUpload.self_path, PlainType,
                      DownloadBody(<< lastUpload.parts[i].filename >>), "none", uploads)} :
                 Answer(DownloadRequest(lastUpload.self_path,
                                    << lastUpload.parts[i].filename >>, "none"), o)
    /\ UNCHANGED << uploads, lastUpload >>

NextUpload ==
    \/ UploadPayload
    \/ DownloadUploaded
    \/ Finish

SpecUpload == Init /\ [][NextUpload]_vars

\* ------------------------------------------------------------------------
\* Downloads of selections
\* ------------------------------------------------------------------------

\* the directories selections are downloaded from
SelectionTargets == {PRoot, PD, PSiblingDir}

\* a selection is downloaded and no step of the handler meets an I/O fault
DownloadSelection ==
    /\ req = IdleRequest
    /\ \E target \in SelectionTargets, names \in Selections :
          \E o \in {do_POST(fs, THUMBNAIL_CACHE, temps, target, PlainType,
                   DownloadBody(names), "none", uploads)} :
              Answer(DownloadRequest(target, names, "none"), o)
    /\ UNCHANGED << uploads, lastUpload >>

\* file names with directory separators and ".." components
PathNames ==
    { << ".", ".", "/", "a" >>, << "d", "/", "f" >>, << "/", "e" >>,
      << ".", ".", "/", ".", ".", "/", "e" >>, << ".", "." >>, << "a", "/" >>,
      << "g" >>, << "d" >>, << "d", "/", ".", ".", "/", "f" >>, << ".", "/", "f" >>,
      << "d", "/", "/", "h" >>, << "a", "/", ".", "." >>, << ".", ".", "/", "r", "x", "/", "f" >> }

\* forms of one or two files under such names
PathNameBatches ==
    { << FilePart(n, << "y" >>) >> : n \in PathNames }
        \cup { << FilePart(n, << "y" >>), FilePart(<< "g" >>, << "z" >>) >> : n \in PathNames }

\* a form whose file names carry paths is uploaded into a directory
UploadPathNames ==
    /\ req = IdleRequest
    /\ uploads < MaxUploads
    /\ \E target \in SelectionTargets, parts \in PathNameBatches :
          \E o \in {do_POST(fs, THUMBNAIL_CACHE, temps, target, MultipartType,
                   MultipartBody(parts), "none", uploads + 1)} :
              Answer(UploadRequest(target, MultipartType, parts), o)
    /\ uploads' = uploads + 1
    /\ UNCHANGED lastUpload

\* uploads of file names with separators and dot components, one after another
NextPlace ==
    \/ UploadPathNames
    \/ Finish

SpecPlace == Init /\ [][NextPlace]_vars

NextArchive ==
    \/ DownloadSelection
    \/ Upload
    \/ Finish

SpecArchive == Init /\ [][NextArchive]_vars

\* ------------------------------------------------------------------------
\* Range requests on one file
\* ------------------------------------------------------------------------

\* largest size of the served file, in bytes
MaxFileSize == 4

\* the request path of the served file and its location
PVideo == << "/", "v", ".", "mp4" >>

\* the request path of a served file of a compressible type
PText == << "/", "t", ".", "txt" >>

\* the files requested
FileTargets == {PVideo, PText}

\* a filesystem whose root holds the files v.mp4 and t.txt of size bytes
FileFs(size) ==
    [q \in { << "/" >>, << "/", "r" >>, << "/", "r", "/", "v", ".", "mp4" >>,
             << "/", "r", "/", "t", ".", "txt" >> } |->
        IF q \in { << "/", "r", "/", "v", ".", "mp4" >>, << "/", "r", "/", "t", ".", "txt" >> }
        THEN File([i \in 1..size |-> Digits[i]], 0)
        ELSE Dir]

\* one side of a Range header: -1 stands for an omitted number
RangeSide(n) == IF n < 0 THEN << >> ELSE DecString(n)

\* the header "bytes=<first>-<last>"
RangeHeader(first, last) ==
    << "bytes", "=" >> \o RangeSide(first) \o << "-" >> \o RangeSide(last)

\* Range headers that do not parse
BadRanges ==
    { << "bytes", "=", "x", "-", "1" >>, << "bytes", "=", "1", "-", "2", "-", "3" >>,
      << "bytes", "=", "1" >> }

RangeRequest(target, first, last) ==
    [method |-> "GET", self_path |-> target, range |-> RangeHeader(first, last),
     parses |-> TRUE, first |-> first, last |-> last]

BadRangeRequest(target, range) ==
    [method |-> "GET", self_path |-> target, range |-> range,
     parses |-> FALSE, first |-> -1, last |-> -1]

InitFile ==
    /\ THUMBNAIL_CACHE = << >>
    /\ fs \in {FileFs(size) : size \in 0..MaxFileSize}
    /\ InitThreads
    /\ InitIdle

\* a GET with a Range header of two (possibly omitted) numbers is handled
GetRange ==
    /\ req = IdleRequest
    /\ \E target \in FileTargets, first \in -1..(MaxFileSize + 1),
          last \in -1..(MaxFileSize + 1) :
          \E o \in {do_GET(fs, THUMBNAIL_CACHE, temps, target, RangeHeader(first, last),
                   FALSE, TRUE)} :
              Answer(RangeRequest(target, first, last), o)
    /\ UNCHANGED << uploads, lastUpload >>

\* a GET with a Range header that does not parse, or with none, is handled
GetWhole ==
    /\ req = IdleRequest
    /\ \E target \in FileTargets, range \in BadRanges \cup { << >> } :
          \E o \in {do_GET(fs, THUMBNAIL_CACHE, temps, target, range, FALSE, TRUE)} :
              Answer(BadRangeRequest(target, range), o)
    /\ UNCHANGED << uploads, lastUpload >>

NextFile ==
    \/ GetRange
    \/ GetWhole
    \/ Finish

SpecFile == InitFile /\ [][NextFile]_vars

\* ------------------------------------------------------------------------
\* Listings of a directory with many entries
\* ------------------------------------------------------------------------

\* full pages the largest listed directory has
MaxFullPages == 2

\* the numbers of entries of the listed directory: none, one, and one less
\* than, exactly and one more than each number of full pages
ListSizes ==
    {0, 1} \cup {k * ITEMS_PER_PAGE + d : k \in 1..MaxFullPages, d \in {-1, 0, 1}}

\* the name of entry i: mixed case, so that sorting by lower case matters
EntryName(i) == (IF i % 2 = 0 THEN << "a" >> ELSE << "B" >>) \o DecString(i)

\* a root directory of n entries; with dirs, every third one is a directory
ListFs(n, dirs) ==
    [q \in { << "/" >>, << "/", "r" >> } \cup { << "/", "r", "/" >> \o EntryName(i) : i \in 1..n }
        |-> IF q \in { << "/" >>, << "/", "r" >> } THEN Dir
            ELSE IF dirs /\ DecValue(Tail(PyFrom(q, 3)), 0) % 3 = 0 THEN Dir
            ELSE File(<< "x" >>, 0)]

\* the request target of page k of the root
PageTarget(k) == << "/", "?", "page", "=" >> \o DecString(k)

\* request targets of the root without a usable page number
DefaultTargets ==
    { << "/" >>, << "/", "?", "page", "=", "0" >>, << "/", "?", "page", "=", "x" >>,
      << "/", "?", "x", "=", "1" >> }

InitList ==
    /\ THUMBNAIL_CACHE = << >>
    /\ fs \in {ListFs(n, dirs) : n \in ListSizes, dirs \in BOOLEAN}
    /\ InitThreads
    /\ InitIdle

\* a GET of page k of the root is handled
GetPage ==
    /\ req = IdleRequest
    /\ \E k \in 1..(MaxFullPages + 2), reversed \in BOOLEAN :
          \E o \in {do_GET(fs, THUMBNAIL_CACHE, temps, PageTarget(k), << >>, reversed, TRUE)} :
              Answer(GetRequest(PageTarget(k), << >>), o)
    /\ UNCHANGED << uploads, lastUpload >>

\* a GET of the root without a usable page number is handled
GetDefaultPage ==
    /\ req = IdleRequest
    /\ \E target \in DefaultTargets :
          \E o \in {do_GET(fs, THUMBNAIL_CACHE, temps, target, << >>, FALSE, TRUE)} :
              Answer(GetRequest(target, << >>), o)
    /\ UNCHANGED << uploads, lastUpload >>

NextList ==
    \/ GetPage
    \/ GetDefaultPage
    \/ Finish

SpecList == InitList /\ [][NextList]_vars

\* ------------------------------------------------------------------------
\* Listings by query string
\* ------------------------------------------------------------------------

\* parameters per query string
MaxParams == 2

\* the values a page parameter is given, each with the page it is due: the
\* number itself for a decimal integer of at least 1, page 1 otherwise
PageValues ==
    { [text |-> << >>, due |-> 1], [text |-> << "0" >>, due |-> 1],
      [text |-> << "-", "1" >>, due |-> 1], [text |-> << "x" >>, due |-> 1],
      [text |-> << "1", ".", "5" >>, due |-> 1], [text |-> << "1" >>, due |-> 1],
      [text |-> << "2" >>, due |-> 2], [text |-> << "3" >>, due |-> 3],
      [text |-> << "1", "2" >>, due |-> 12] }

\* the parameters of a query string: a page parameter, or another one
PageParams == {[name |-> << "page" >>, text |-> v.text, due |-> v.due] : v \in PageValues}

OtherParams ==
    { [name |-> << "x" >>, text |-> << "1" >>, due |-> 0],
      [name |-> << "pagex" >>, text |-> << "2" >>, due |-> 0] }

\* the query strings requested: at most one page parameter among the others
Queries ==
    {q \in SeqsUpTo(PageParams \cup OtherParams, MaxParams) :
        Cardinality({i \in 1..Len(q) : q[i] \in PageParams}) <= 1}

\* "name=value&name=value"
RECURSIVE EncodeQuery(_)
EncodeQuery(q) ==
    IF q = << >> THEN << >>
    ELSE Head(q).name \o << "=" >> \o Head(q).text
            \o (IF Tail(q) = << >> THEN << >> ELSE << "&" >> \o EncodeQuery(Tail(q)))

\* the request target of directory dir with query string q
QueryTarget(dir, q) == IF q = << >> THEN dir ELSE dir \o << "?" >> \o EncodeQuery(q)

QueryRequest(dir, q) ==
    [method |-> "GET", self_path |-> QueryTarget(dir, q), range |-> << >>, query |-> q]

\* a GET of a directory with a query string is handled
GetQuery ==
    /\ req = IdleRequest
    /\ \E dir \in {PRoot, PD}, q \in Queries :
          \E o \in {do_GET(fs, THUMBNAIL_CACHE, temps, QueryTarget(dir, q), << >>,
                   FALSE, TRUE)} :
              Answer(QueryRequest(dir, q), o)
    /\ UNCHANGED << uploads, lastUpload >>

NextQuery ==
    \/ GetQuery
    \/ Finish

SpecQuery == Init /\ [][NextQuery]_vars

\* ------------------------------------------------------------------------
\* Thumbnail lookups, one after the other
\* ------------------------------------------------------------------------

\* free cache slots the fullest-but-not-full initial cache leaves
MaxRoom == 2

\* get_thumbnail_html calls per run
MaxLookups == 3

\* largest modification time a file is given
MaxMtime == 1

\* the files looked up, and a file modified and listed many times before
PThumbF == << "/", "r", "/", "a", ".", "jpg" >>

PThumbG == << "/", "r", "/", "g" >>

PThumbOld == << "/", "r", "/", "o" >>

LookupFiles == {PThumbF, PThumbG}

\* the cache after n lookups of the old file, each at a new modification time
Prefilled(n) == [k \in {<< PThumbOld, 0 - i >> : i \in 1..n} |-> Icon("folder")] @@ << >>

\* the sizes of the initial cache: empty, full, and up to MaxRoom below full
CacheFills == {0} \cup {MAX_CACHE_SIZE - d : d \in 0..MaxRoom}

\* a filesystem whose root holds an image and a file of no known type
ThumbFs ==
    [q \in { << "/" >>, << "/", "r" >>, PThumbF, PThumbG } |->
        CASE q = PThumbF -> File(<< "x", "y" >>, 0)
          [] q = PThumbG -> File(<< "LF" >>, 0)
          [] OTHER -> Dir]

InitLookup ==
    /\ THUMBNAIL_CACHE \in {Prefilled(n) : n \in CacheFills}
    /\ fs = ThumbFs
    /\ InitThreads
    /\ InitIdle

\* the record of a call that returned r, made when the cache was cache
LookupRecord(cache, f, file_path, r) ==
    [file_path |-> file_path, mtime |-> getmtime(f, file_path), result |-> r.result,
     rendered |-> r.rendered,
     known |-> << file_path, getmtime(f, file_path) >> \in DOMAIN cache,
     kept |-> << file_path, getmtime(f, file_path) >> \in DOMAIN r.cache]

\* get_thumbnail_html is called and returns
LookupFile ==
    /\ Len(lookups) < MaxLookups
    /\ \E file_path \in LookupFiles, decoded \in BOOLEAN :
          \E r \in {get_thumbnail_html(THUMBNAIL_CACHE, fs, file_path, basename(file_path),
                                       decoded)} :
              /\ THUMBNAIL_CACHE' = r.cache
              /\ lookups' = Append(lookups, LookupRecord(THUMBNAIL_CACHE, fs, file_path, r))
    /\ UNCHANGED << CACHE_LOCK, threads, httpVars >>

\* a file is modified: its modification time becomes another value
Touch ==
    /\ \E file_path \in LookupFiles \cap DOMAIN fs, m \in 0..MaxMtime :
          /\ m # getmtime(fs, file_path)
          /\ fs' = [fs EXCEPT ![file_path].mtime = m]
    /\ UNCHANGED << THUMBNAIL_CACHE, cacheVars, temps, req, wire, accessed, served,
                    lastUpload, uploads >>

NextLookup ==
    \/ LookupFile
    \/ Touch

SpecLookup == InitLookup /\ [][NextLookup]_vars

\* ------------------------------------------------------------------------
\* Thumbnail lookups by concurrent worker threads
\* ------------------------------------------------------------------------

\* thread t enters get_thumbnail_html(file_path, ...) and computes cache_key;
\* os.path.getmtime raises for a file that is gone, and no try encloses it
Call(t) ==
    /\ threads[t].pc = "idle"
    /\ \E file_path \in LookupFiles :
          threads' = [threads EXCEPT ![t] =
                         IF file_path \in DOMAIN fs
                         THEN [IdleThread EXCEPT !.pc = "check", !.file_path = file_path,
                                   !.cache_key = << file_path, getmtime(fs, file_path) >>]
                         ELSE [IdleThread EXCEPT !.pc = "raised", !.file_path = file_path]]
    /\ UNCHANGED << THUMBNAIL_CACHE, CACHE_LOCK, lookups, httpVars >>

\* "with CACHE_LOCK:" is entered, before the lookup or before the insert
Acquire(t) ==
    /\ threads[t].pc \in {"check", "cache"}
    /\ CACHE_LOCK = 0
    /\ CACHE_LOCK' = t
    /\ threads' = [threads EXCEPT ![t].pc =
                      IF threads[t].pc = "check" THEN "checking" ELSE "caching"]
    /\ UNCHANGED << THUMBNAIL_CACHE, lookups, httpVars >>

\* the lookup that keeps the lock on a miss
CheckKeepingLock(t) ==
    /\ threads[t].pc = "checking"
    /\ CACHE_LOCK = t
    /\ CACHE_LOCK' = IF threads[t].cache_key \in DOMAIN THUMBNAIL_CACHE THEN 0 ELSE t
    /\ threads' = [threads EXCEPT ![t] =
                      IF threads[t].cache_key \in DOMAIN THUMBNAIL_CACHE
                      THEN [@ EXCEPT !.pc = "return", !.hit = TRUE,
                                     !.result = THUMBNAIL_CACHE[threads[t].cache_key]]
                      ELSE [@ EXCEPT !.pc = "render"]]
    /\ UNCHANGED << THUMBNAIL_CACHE, lookups, httpVars >>

\* "if cache_key in THUMBNAIL_CACHE: return THUMBNAIL_CACHE[cache_key]"
Check(t) ==
    /\ threads[t].pc = "checking"
    /\ CACHE_LOCK = t
    /\ CACHE_LOCK' = 0
    /\ threads' = [threads EXCEPT ![t] =
                      IF threads[t].cache_key \in DOMAIN THUMBNAIL_CACHE
                      THEN [@ EXCEPT !.pc = "return", !.hit = TRUE,
                                     !.result = THUMBNAIL_CACHE[threads[t].cache_key]]
                      ELSE [@ EXCEPT !.pc = "render"]]
    /\ UNCHANGED << THUMBNAIL_CACHE, lookups, httpVars >>

\* the fragment is rendered, outside the lock; decoding a file that is gone
\* fails, and the except clauses turn the failure into an icon
Render(t) ==
    /\ threads[t].pc = "render"
    /\ \E decoded \in IF threads[t].file_path \in DOMAIN fs THEN BOOLEAN ELSE {FALSE} :
          threads' = [threads EXCEPT ![t].pc = "cache",
                         ![t].result = RenderThumbnail(fs, threads[t].file_path,
                                                       basename(threads[t].file_path), decoded)]
    /\ UNCHANGED << THUMBNAIL_CACHE, CACHE_LOCK, lookups, httpVars >>

\* "if len(THUMBNAIL_CACHE) < MAX_CACHE_SIZE: THUMBNAIL_CACHE[cache_key] = result"
Insert(t) ==
    /\ threads[t].pc = "caching"
    /\ CACHE_LOCK = t
    /\ CACHE_LOCK' = 0
    /\ THUMBNAIL_CACHE' = CacheInsert(THUMBNAIL_CACHE, threads[t].cache_key, threads[t].result)
    /\ threads' = [threads EXCEPT ![t].pc = "return"]
    /\ UNCHANGED << lookups, httpVars >>

\* "return result", or the exception leaves get_thumbnail_html
Return(t) ==
    /\ threads[t].pc \in {"return", "raised"}
    /\ threads' = [threads EXCEPT ![t] = IdleThread]
    /\ UNCHANGED << THUMBNAIL_CACHE, CACHE_LOCK, lookups, httpVars >>

NextCache ==
    \/ \E t \in Threads : Call(t)
    \/ \E t \in Threads : Acquire(t)
    \/ \E t \in Threads : Check(t)
    \/ \E t \in Threads : Render(t)
    \/ \E t \in Threads : Insert(t)
    \/ \E t \in Threads : Return(t)
    \/ Touch

SpecCache == InitLookup /\ [][NextCache]_vars

\* ------------------------------------------------------------------------
\* Thumbnail lookups of files that other processes remove
\* ------------------------------------------------------------------------

InitRender ==
    /\ THUMBNAIL_CACHE = << >>
    /\ fs = ThumbFs
    /\ InitThreads
    /\ InitIdle

\* a file the directory listing enumerated is removed from the directory
Remove ==
    /\ \E file_path \in LookupFiles \cap DOMAIN fs :
          fs' = [q \in DOMAIN fs \ {file_path} |-> fs[q]] @@ << >>
    /\ UNCHANGED << THUMBNAIL_CACHE, cacheVars, temps, req, wire, accessed, served,
                    lastUpload, uploads >>

NextRender ==
    \/ NextCache
    \/ Remove

SpecRender == InitRender /\ [][NextRender]_vars

\* ------------------------------------------------------------------------
\* Video thumbnails rendered by concurrent worker threads
\* ------------------------------------------------------------------------

\* two videos of one directory, and a video file without a frame in another
PVideoA == << "/", "r", "/", "a", ".", "mp4" >>

PVideoB == << "/", "r", "/", "b", ".", "mp4" >>

PVideoBad == << "/", "r", "/", "d", "/", "c", ".", "mp4" >>

VideoFiles == {PVideoA, PVideoB, PVideoBad}

VideoFs ==
    [q \in { << "/" >>, << "/", "r" >>, << "/", "r", "/", "d" >> } \cup VideoFiles |->
        CASE q = PVideoA -> File(<< "x" >>, 0)
          [] q = PVideoB -> File(<< "y" >>, 0)
          [] q = PVideoBad -> File(<< >>, 0)
          [] OTHER -> Dir]

\* os.getpid(): one number for every thread of the server process
getpid == "pid"

\* "temp_file = os.path.join(os.path.dirname(video_path), f".thumb_{os.getpid()}.png")"
temp_file(video_path) ==
    pathjoin(dirname(video_path), << ".", "thumb_", getpid, ".", "png" >>)

\* ffmpeg finds a frame in the bytes of a video: a file of no bytes has none
HasFrame(bytes) == bytes # << >>

\* the PNG ffmpeg writes for the frame of a video, scaled and padded
FfmpegFrame(bytes) == << "png" >> \o bytes

\* base64.b64encode(img_data).decode()
b64encode(img_data) == << "b64" >> \o img_data

\* the fragment get_thumbnail_html makes of the string extract_video_thumbnail
\* returned
VideoFragment(video_thumb, filename) ==
    << "img" >> \o video_thumb \o << "alt" >> \o filename

\* os.remove(p)
RemoveFile(f, p) == [q \in DOMAIN f \ {p} |-> f[q]] @@ << >>

InitFrame ==
    /\ THUMBNAIL_CACHE = << >>
    /\ fs = VideoFs
    /\ InitThreads
    /\ InitIdle

\* thread t enters get_thumbnail_html for a video no other thread is
\* rendering, and computes cache_key
CallVideo(t) ==
    /\ threads[t].pc = "idle"
    /\ \E file_path \in VideoFiles :
          /\ \A u \in Threads \ {t} : threads[u].file_path # file_path
          /\ threads' = [threads EXCEPT ![t] =
                            [IdleThread EXCEPT !.pc = "check", !.file_path = file_path,
                                 !.cache_key = << file_path, getmtime(fs, file_path) >>]]
    /\ UNCHANGED << THUMBNAIL_CACHE, CACHE_LOCK, lookups, httpVars >>

\* extract_video_thumbnail runs "ffmpeg -i video_path ... -y temp_file": the
\* frame is written over whatever temp_file holds; without a frame nothing is
\* written
Ffmpeg(t) ==
    /\ threads[t].pc = "render"
    /\ fs' = IF HasFrame(ReadFile(fs, threads[t].file_path))
             THEN WriteFile(fs, temp_file(threads[t].file_path),
                            FfmpegFrame(ReadFile(fs, threads[t].file_path)), 0)
             ELSE fs
    /\ threads' = [threads EXCEPT ![t].pc = "exists"]
    /\ UNCHANGED << THUMBNAIL_CACHE, CACHE_LOCK, lookups, temps, req, wire, accessed,
                    served, lastUpload, uploads >>

\* "if os.path.exists(temp_file):", else "return None" and the video icon
Exists(t) ==
    /\ threads[t].pc = "exists"
    /\ threads' = [threads EXCEPT ![t] =
                      IF temp_file(threads[t].file_path) \in DOMAIN fs
                      THEN [@ EXCEPT !.pc = "read"]
                      ELSE [@ EXCEPT !.pc = "cache", !.result = Icon("video")]]
    /\ UNCHANGED << THUMBNAIL_CACHE, CACHE_LOCK, lookups, httpVars >>

\* "with open(temp_file, 'rb') as f: img_data = f.read(); img_str = ..." (held
\* in result until the return); opening a file that is gone raises, the
\* finally clause's os.remove fails silently and the outer except returns None
ReadFrame(t) ==
    /\ threads[t].pc = "read"
    /\ threads' = [threads EXCEPT ![t] =
                      IF temp_file(threads[t].file_path) \in DOMAIN fs
                      THEN [@ EXCEPT !.pc = "remove",
                                !.result = b64encode(ReadFile(fs, temp_file(threads[t].file_path)))]
                      ELSE [@ EXCEPT !.pc = "cache", !.result = Icon("video")]]
    /\ UNCHANGED << THUMBNAIL_CACHE, CACHE_LOCK, lookups, httpVars >>

\* "finally: os.remove(temp_file)" (a failure is passed over), "return
\* img_str", and get_thumbnail_html wraps the string in the fragment
RemoveFrame(t) ==
    /\ threads[t].pc = "remove"
    /\ fs' = RemoveFile(fs, temp_file(threads[t].file_path))
    /\ threads' = [threads EXCEPT ![t].pc = "cache",
                      ![t].result = VideoFragment(threads[t].result,
                                                  basename(threads[t].file_path))]
    /\ UNCHANGED << THUMBNAIL_CACHE, CACHE_LOCK, lookups, temps, req, wire, accessed,
                    served, lastUpload, uploads >>

NextFrame ==
    \/ \E t \in Threads : CallVideo(t)
    \/ \E t \in Threads : Acquire(t)
    \/ \E t \in Threads : Check(t)
    \/ \E t \in Threads : Ffmpeg(t)
    \/ \E t \in Threads : Exists(t)
    \/ \E t \in Threads : ReadFrame(t)
    \/ \E t \in Threads : RemoveFrame(t)
    \/ \E t \in Threads : Insert(t)
    \/ \E t \in Threads : Return(t)

SpecFrame == InitFrame /\ [][NextFrame]_vars

\* ------------------------------------------------------------------------
\* Properties of the request machine
\* ------------------------------------------------------------------------

\* p is the serve root or a location below it
InTree(p) ==
    normpath(p) = normpath(SERVE_PATH) \/ StartsWith(normpath(p), normpath(SERVE_PATH) \o << "/" >>)

\* the locations the request being answered names: its target, and each
\* name of a download selection joined onto it
RequestedLocations ==
    IF req = IdleRequest THEN {}
    ELSE {served.fs_path} \cup
         {normpath(pathjoin(served.fs_path, served.files_list[i])) :
             i \in 1..Len(served.files_list)}

\* the response carries status code and no other
AnswersOnly(code) == StatusLines(wire) = << code >>

\* C1: a request that names a location outside the serve root's tree (by its
\* path or by a name of its download selection) is answered 403 and that
\* location is not accessed.
C1_OutsideDenied ==
    \A p \in RequestedLocations : ~InTree(p) => AnswersOnly(403) /\ p \notin accessed

\* the indices of the selection whose name passes the containment check and
\* is an existing regular file
ValidNames ==
    {i \in 1..Len(served.files_list) :
        /\ InsideRoot(normpath(pathjoin(served.fs_path, served.files_list[i])))
        /\ isfile(fs, normpath(pathjoin(served.fs_path, served.files_list[i])))}

\* a download request whose handling met no I/O fault is being answered
DownloadAnswered ==
    /\ req # IdleRequest
    /\ req.method = "POST"
    /\ req.kind = "download"
    /\ req.fault = "none"

\* C4: the number of valid names decides the form of a download response:
\* exactly one valid name gives the direct stream of that file with a
\* Content-Disposition carrying the requested name, two or more give one
\* archive response, whatever invalid names are in the selection.
C4_FormByValidNames ==
    DownloadAnswered =>
        /\ Cardinality(ValidNames) = 1 =>
              \E i \in ValidNames :
                  /\ served.handler = "send_file_download"
                  /\ HeaderValues(wire, "Content-Disposition")
                        = << << "attachment", "filename" >> \o served.files_list[i] >>
                  /\ BodyBytes(wire)
                        = ReadFile(fs, normpath(pathjoin(served.fs_path, served.files_list[i])))
        /\ Cardinality(ValidNames) >= 2 =>
              /\ served.handler = "send_zip_download"
              /\ AnswersOnly(200)
              /\ HeaderValues(wire, "Content-type") = << "application/zip" >>

\* C10: once send_zip_download has returned, on any path out of it, the
\* temporary archive file it created no longer exists.
C10_TempRemoved == temps = 0

\* ------------------------------------------------------------------------
\* Properties of uploads
\* ------------------------------------------------------------------------

\* the download of name n being answered follows the upload of the single
\* file part (n, B) into an existing directory
RoundTrip(n, B) ==
    /\ req # IdleRequest
    /\ req.method = "POST"
    /\ req.kind = "download"
    /\ req.names = << n >>
    /\ lastUpload # IdleRequest
    /\ lastUpload.parts = << FilePart(n, B) >>
    /\ lastUpload.self_path = req.self_path

\* C2: a multipart upload of the bytes B under the name n into an existing
\* directory, followed at once by the single-file download of n from that
\* directory, returns a body equal to B.
C2_RoundTrip ==
    \A n \in UploadNames, B \in Payloads :
        RoundTrip(n, B) => AnswersOnly(200) /\ BodyBytes(wire) = B

\* a multipart upload into an existing directory is being answered
UploadAnswered ==
    /\ req # IdleRequest
    /\ req.method = "POST"
    /\ req.kind = "upload"
    /\ Contains(req.content_type, << "multipart/form-data" >>)
    /\ isdir(fs, ResolveTarget(Split(unquote(req.self_path), << "?" >>)[1]))

\* the parts of the upload being answered that are files with a name
NamedParts == {i \in 1..Len(req.parts) : req.parts[i].file /\ req.parts[i].filename # << >>}

\* the location part i of the upload being answered is stored at
PartLocation(i) ==
    normpath(pathjoin(ResolveTarget(Split(unquote(req.self_path), << "?" >>)[1]),
                      req.parts[i].filename))

\* C5: a multipart upload to an existing directory leaves, for each file part
\* with a non-empty name, a file in the directory holding that part's bytes
\* (the later part winning a shared name) and answers 200 reporting the
\* number of these parts; other parts are neither written nor counted.
C5_UploadStored ==
    UploadAnswered =>
        /\ AnswersOnly(200)
        /\ BodyBytes(wire) = << "uploaded" >> \o DecString(Cardinality(NamedParts))
        /\ \A i \in NamedParts :
              (\A j \in NamedParts : j > i => req.parts[j].filename # req.parts[i].filename)
                 => /\ isfile(fs, PartLocation(i))
                    /\ ReadFile(fs, PartLocation(i)) = req.parts[i].data
        /\ Len(served.written) = Cardinality(NamedParts)

\* C6: a POST with a multipart/form-data content type to an existing
\* directory is handled by the upload parser, and the download packager
\* handles download selections only, whatever the uploaded bytes are.
C6_DispatchByKind ==
    /\ UploadAnswered => served.entry = "do_POST" /\ served.handler = "upload"
    /\ (req # IdleRequest /\ served.entry = "handle_download") => req.kind = "download"

\* ------------------------------------------------------------------------
\* Properties of range requests
\* ------------------------------------------------------------------------

\* a GET whose Range header parses is being answered
RangeAnswered == req # IdleRequest /\ req.method = "GET" /\ req.parses

\* the size of the served file
ServedSize == Len(fs[served.fs_path].data)

\* the bounds the request asks for: an omitted start is 0, an omitted end S-1
AskedStart == IF req.first < 0 THEN 0 ELSE req.first

AskedEnd == IF req.last < 0 THEN ServedSize - 1 ELSE req.last

\* the pair (s, e) of the response: the asked pair when both bounds are
\* below the size, the whole file otherwise
DueStart == IF AskedStart >= ServedSize \/ AskedEnd >= ServedSize THEN 0 ELSE AskedStart

DueEnd ==
    IF AskedStart >= ServedSize \/ AskedEnd >= ServedSize THEN ServedSize - 1 ELSE AskedEnd

\* C3: for a file of size S and a Range header bytes=<start>-<end> that
\* parses, send_file answers 206 with Content-Range bytes s-e/S and
\* Content-Length e-s+1 and streams exactly the bytes s..e, (s, e) being the
\* asked pair when both bounds are below S and (0, S-1) otherwise; the
\* number of body bytes written equals the declared Content-Length.
C3_RangeExact ==
    RangeAnswered =>
        /\ AnswersOnly(206)
        /\ HeaderValues(wire, "Content-Range") = << << DueStart, DueEnd, ServedSize >> >>
        /\ HeaderValues(wire, "Content-Length") = << DueEnd - DueStart + 1 >>
        /\ BodyBytes(wire) = PySlice(fs[served.fs_path].data, DueStart, DueEnd + 1)
        /\ Len(BodyBytes(wire)) = DueEnd - DueStart + 1

\* ------------------------------------------------------------------------
\* Properties of listings
\* ------------------------------------------------------------------------

\* a GET answered by list_directory
ListAnswered == req # IdleRequest /\ req.method = "GET" /\ served.handler = "list_directory"

\* ceil(n / ITEMS_PER_PAGE)
LastPage(n) == (n + ITEMS_PER_PAGE - 1) \div ITEMS_PER_PAGE

\* the number of entries page k of n entries is due
DueCount(n, k) ==
    IF k > LastPage(n) THEN 0
    ELSE IF n - ITEMS_PER_PAGE * (k - 1) < ITEMS_PER_PAGE THEN n - ITEMS_PER_PAGE * (k - 1)
    ELSE ITEMS_PER_PAGE

\* the entries list is the directory's content, each name once, directories
\* first and by lower-case name within each kind
SortedListing(f, path, entries) ==
    /\ {entries[i] : i \in 1..Len(entries)} = Children(f, path)
    /\ Len(entries) = Cardinality(Children(f, path))
    /\ \A i \in 1..(Len(entries) - 1) :
          ~KeyLess(SortKey(f, path, entries[i + 1]), SortKey(f, path, entries[i]))

\* the number of items the document sent first shows
ShownItems ==
    LET doc == SelectSeq(wire, LAMBDA e : e.ev = "body")[1].value
    IN  Cardinality({i \in 1..Len(doc) : doc[i] \in {"<item>", "<item-dir>"}})

\* C9: the listing of page k >= 1 of a directory of N entries holds
\* min(50, N - 50*(k-1)) entries for k <= ceil(N/50) and none beyond, still
\* as a 200 listing; page k holds the entries 50*(k-1)+1 .. of the sorted
\* directory content, so the pages together hold every entry once, in order.
C9_PageContents ==
    ListAnswered =>
        /\ AnswersOnly(200)
        /\ served.page >= 1
        /\ served.total_pages = LastPage(Len(served.entries))
        /\ SortedListing(fs, served.fs_path, served.entries)
        /\ Len(served.paginated_entries) = DueCount(Len(served.entries), served.page)
        /\ ShownItems = DueCount(Len(served.entries), served.page)
        /\ \A i \in 1..Len(served.paginated_entries) :
              served.paginated_entries[i]
                 = served.entries[ITEMS_PER_PAGE * (served.page - 1) + i]

\* the third page of a directory of two full pages and one more entry
C9_LastPageOfOne ==
    /\ ListAnswered
    /\ Len(served.entries) = 2 * ITEMS_PER_PAGE + 1
    /\ served.page = 3
    /\ Len(served.paginated_entries) = 1

\* ------------------------------------------------------------------------
\* Properties of the thumbnail cache
\* ------------------------------------------------------------------------

\* lookups i and j are successive lookups of one file
Successive(i, j) ==
    /\ i < j
    /\ lookups[i].file_path = lookups[j].file_path
    /\ \A k \in (i + 1)..(j - 1) : lookups[k].file_path # lookups[i].file_path

\* every key a lookup found or left in the cache is in the cache
StaleEntriesStay ==
    \A i \in 1..Len(lookups) :
        lookups[i].kept => << lookups[i].file_path, lookups[i].mtime >> \in DOMAIN THUMBNAIL_CACHE

\* C7 as stated: of two successive lookups of a file, the second is a hit
\* returning the identical fragment without rendering when the modification
\* time is unchanged, and a miss that renders when the modification time has
\* changed; entries of earlier modification times stay in the cache
C7_Original ==
    /\ \A i, j \in 1..Len(lookups) :
          Successive(i, j) =>
              IF lookups[i].mtime = lookups[j].mtime
              THEN ~lookups[j].rendered /\ lookups[j].result = lookups[i].result
              ELSE lookups[j].rendered
    /\ StaleEntriesStay

\* C7: of two successive lookups of a file, the second is a hit returning the
\* identical fragment without rendering when the modification time is
\* unchanged and the first lookup left its fragment in the cache, and a miss
\* that renders when the modification time has changed to one the file has
\* no cached entry for; entries of earlier modification times stay in the
\* cache
C7_HitWhenRetained ==
    /\ \A i, j \in 1..Len(lookups) :
          Successive(i, j) =>
              /\ (lookups[i].mtime = lookups[j].mtime /\ lookups[i].kept) =>
                    ~lookups[j].rendered /\ lookups[j].result = lookups[i].result
              /\ (lookups[i].mtime # lookups[j].mtime /\ ~lookups[j].known) =>
                    lookups[j].rendered
    /\ StaleEntriesStay

\* the image was rendered and cached, looked up again unchanged and found,
\* then modified and rendered afresh with the earlier entry still cached
C7_HitThenMiss ==
    /\ Len(lookups) = 3
    /\ \A i \in 1..3 : lookups[i].file_path = PThumbF
    /\ lookups[1].rendered /\ lookups[1].kept /\ lookups[1].result[1] = "img"
    /\ lookups[2].mtime = lookups[1].mtime /\ ~lookups[2].rendered
    /\ lookups[3].mtime # lookups[1].mtime /\ lookups[3].rendered /\ lookups[3].kept
    /\ << PThumbF, lookups[1].mtime >> \in DOMAIN THUMBNAIL_CACHE

\* C8: the cache never holds more than MAX_CACHE_SIZE entries, whatever the
\* interleaving of the threads' lookups
C8_CacheBounded == Cardinality(DOMAIN THUMBNAIL_CACHE) <= MAX_CACHE_SIZE

\* two threads both missed on different keys with one slot left, one has
\* filled the slot and the other holds the lock about to insert
C8_RaceAtCap ==
    /\ Cardinality(DOMAIN THUMBNAIL_CACHE) = MAX_CACHE_SIZE
    /\ \E t, u \in Threads :
          /\ t # u
          /\ threads[t].pc = "caching"
          /\ threads[t].cache_key \notin DOMAIN THUMBNAIL_CACHE
          /\ threads[u].pc = "return"
          /\ ~threads[u].hit
          /\ threads[u].cache_key \in DOMAIN THUMBNAIL_CACHE
          /\ threads[u].cache_key # threads[t].cache_key

\* ------------------------------------------------------------------------
\* Properties of upload failures
\* ------------------------------------------------------------------------

\* the named parts of the upload being answered whose location can be
\* written: it is not a directory
WritableParts == {i \in NamedParts : ~isdir(fs, PartLocation(i))}

\* C11: a multipart upload to an existing directory in which a segment fails
\* (its name denotes an existing directory) skips that segment only: every
\* other named segment is written, and the answer is 200 with the count of
\* the segments written.
C11_SegmentSkipped ==
    (UploadAnswered /\ InsideRoot(ResolveTarget(Split(unquote(req.self_path), << "?" >>)[1]))) =>
        /\ AnswersOnly(200)
        /\ BodyBytes(wire) = << "uploaded" >> \o DecString(Cardinality(WritableParts))
        /\ \A i \in WritableParts :
              /\ isfile(fs, PartLocation(i))
              /\ (\A j \in WritableParts :
                     j > i => req.parts[j].filename # req.parts[i].filename)
                    => ReadFile(fs, PartLocation(i)) = req.parts[i].data

\* ------------------------------------------------------------------------
\* Properties of thumbnail rendering failures
\* ------------------------------------------------------------------------

\* C12: get_thumbnail_html never lets an exception escape, whichever step
\* fails, the modification-time read of a file removed after the directory
\* was enumerated included: no call of any thread ends raising.
C12_NoEscape == \A t \in Threads : threads[t].pc # "raised"

\* ------------------------------------------------------------------------
\* Properties of the listing response
\* ------------------------------------------------------------------------

\* body is the gzip encoding of one document and nothing else
OneCompressedDocument(body) ==
    /\ Len(body) >= 2
    /\ body = gzip(PySlice(body, 1, -1))
    /\ \A i \in 2..(Len(body) - 1) : body[i] \notin {"gz[", "]"}

\* C13: the body of a listing response is the gzip-compressed document and
\* nothing else, and the number of its bytes is the Content-Length sent with
\* Content-Encoding: gzip.
C13_ListingBody ==
    ListAnswered =>
        /\ "gzip" \in {HeaderValues(wire, "Content-Encoding")[i] :
                          i \in 1..Len(HeaderValues(wire, "Content-Encoding"))}
        /\ OneCompressedDocument(BodyBytes(wire))
        /\ HeaderValues(wire, "Content-Length") = << Len(BodyBytes(wire)) >>

\* ------------------------------------------------------------------------
\* Properties of whole-file responses
\* ------------------------------------------------------------------------

\* a GET with a Range header that does not parse is being answered
BadRangeAnswered ==
    req # IdleRequest /\ req.method = "GET" /\ ~req.parses /\ req.range # << >>

\* the positions of the events of kind ev on the wire
EventsAt(ev) == {i \in 1..Len(wire) : wire[i].ev = ev}

\* the response is complete: one status line first, then headers, one end of
\* headers, and every body byte after it
HeadThenBody ==
    /\ Cardinality(EventsAt("status")) = 1
    /\ Cardinality(EventsAt("end")) = 1
    /\ wire[1].ev = "status"
    /\ \A i \in EventsAt("header"), j \in EventsAt("end") : i < j
    /\ \A i \in EventsAt("body"), j \in EventsAt("end") : j < i

\* C14: a Range header that cannot be parsed is answered with the full,
\* uncompressed response: a status line and headers written once and before
\* any body byte, followed by all S bytes of the file.
C14_BadRangeFull ==
    BadRangeAnswered =>
        /\ HeadThenBody
        /\ AnswersOnly(200)
        /\ HeaderValues(wire, "Content-Encoding") = << >>
        /\ BodyBytes(wire) = fs[served.fs_path].data

\* a GET answered by send_file
FileAnswered == req # IdleRequest /\ req.method = "GET" /\ served.handler = "send_file"

\* the response is compressed: it says so, declares no length, and its body
\* is the gzip encoding of the file
CompressedResponse ==
    /\ HeaderValues(wire, "Content-Encoding") = << "gzip" >>
    /\ HeaderValues(wire, "Content-Length") = << >>
    /\ BodyBytes(wire) = gzip(fs[served.fs_path].data)

\* the response is uncompressed, with the exact length of its body and
\* Accept-Ranges
PlainResponse ==
    /\ HeaderValues(wire, "Content-Encoding") = << >>
    /\ HeaderValues(wire, "Content-Length") = << Len(BodyBytes(wire)) >>
    /\ HeaderValues(wire, "Accept-Ranges") = << "bytes" >>
    /\ \A i \in 1..Len(BodyBytes(wire)) : BodyBytes(wire)[i] \in {Digits[k] : k \in 1..Len(Digits)}

\* C15: a file response is compressed exactly when the request has no Range
\* header and the file's type is one of the five compressible types; every
\* other file response, the answer to any request with a Range header
\* included, is uncompressed with an exact Content-Length and Accept-Ranges.
C15_CompressedIff ==
    FileAnswered =>
        IF req.range = << >> /\ guess_type(served.fs_path) \in CompressibleTypes
        THEN CompressedResponse
        ELSE PlainResponse

\* ------------------------------------------------------------------------
\* Properties of archive downloads
\* ------------------------------------------------------------------------

\* a download of two or more names whose handling met no I/O fault is being
\* answered
MultiDownloadAnswered == DownloadAnswered /\ Len(served.files_list) >= 2

\* the indices of the valid names of the selection, in the order requested
ValidInOrder ==
    SelectSeq([i \in 1..Len(served.files_list) |-> i], LAMBDA i : i \in ValidNames)

\* the answer is a 200 archive response
ArchiveSent ==
    /\ served.handler = "send_zip_download"
    /\ AnswersOnly(200)
    /\ HeaderValues(wire, "Content-type") = << "application/zip" >>
    /\ Len(served.archive) = Len(ValidInOrder)
    /\ \A k \in 1..Len(ValidInOrder) :
          served.archive[k].data =
              ReadFile(fs, normpath(pathjoin(served.fs_path,
                                             served.files_list[ValidInOrder[k]])))

PostTargetOf(r) == ResolveTarget(Split(unquote(r.self_path), << "?" >>)[1])

\* r is an upload POST (no download selection in its body) whose target
\* passes the containment check
UploadPostedBy(r) ==
    /\ r # IdleRequest
    /\ r.method = "POST"
    /\ r.kind = "upload"
    /\ ~Contains(r.body, DownloadMarker)
    /\ InsideRoot(PostTargetOf(r))

\* the declared content type of the POST r is multipart
DeclaredMultipartBy(r) == Contains(r.content_type, << "multipart/form-data" >>)

PostTarget == PostTargetOf(req)

UploadPosted == UploadPostedBy(req)

DeclaredMultipart == DeclaredMultipartBy(req)

Renderings(f, file_path) ==
    {RenderThumbnail(f, file_path, basename(file_path), decoded) : decoded \in BOOLEAN}

\* C18: a lookup that misses while the cache holds MAX_CACHE_SIZE entries
\* returns a freshly rendered fragment and leaves the cache as it was: no
\* entry is inserted, evicted or replaced, so a repeated lookup of the same
\* file misses and renders again.
C18_FullCacheFrame ==
    [][(/\ Len(lookups') = Len(lookups) + 1
        /\ Cardinality(DOMAIN THUMBNAIL_CACHE) = MAX_CACHE_SIZE
        /\ ~lookups'[Len(lookups')].known)
          => /\ THUMBNAIL_CACHE' = THUMBNAIL_CACHE
             /\ lookups'[Len(lookups')].rendered
             /\ lookups'[Len(lookups')].result
                   \in Renderings(fs, lookups'[Len(lookups')].file_path)
             /\ ~lookups'[Len(lookups')].kept]_vars

\* with the cache full, the image was looked up three times at one
\* modification time and rendered each time
C18_RenderedEveryTime ==
    /\ Cardinality(DOMAIN THUMBNAIL_CACHE) = MAX_CACHE_SIZE
    /\ Len(lookups) = 3
    /\ \A i \in 1..3 :
          /\ lookups[i].file_path = PThumbF
          /\ lookups[i].mtime = lookups[1].mtime
          /\ lookups[i].rendered
          /\ ~lookups[i].kept
    /\ THUMBNAIL_CACHE = Prefilled(MAX_CACHE_SIZE)

\* ------------------------------------------------------------------------
\* Properties of the cache lock
\* ------------------------------------------------------------------------

\* C19: the cache lock is held by a thread exactly while it is inside one of
\* the two critical sections (the lookup, the insert-if-capacity-remains):
\* never by a thread that is rendering, and by no thread that has left a
\* critical section, a lookup hit returning from inside it included.
C19_LockOnlyInSections ==
    /\ CACHE_LOCK \in {0} \cup Threads
    /\ \A t \in Threads :
          /\ threads[t].pc = "render" => CACHE_LOCK # t
          /\ CACHE_LOCK = t <=> threads[t].pc \in {"checking", "caching"}

\* two threads are rendering different uncached files at the same time and
\* the lock is free
C19_ParallelRenders ==
    /\ CACHE_LOCK = 0
    /\ \E t, u \in Threads :
          /\ threads[t].pc = "render"
          /\ threads[u].pc = "render"
          /\ threads[t].file_path # threads[u].file_path

\* ------------------------------------------------------------------------
\* Properties of the page number
\* ------------------------------------------------------------------------

\* the page the query string of the request being answered is due
DuePage ==
    IF \E i \in 1..Len(req.query) : req.query[i] \in PageParams
    THEN (CHOOSE v \in {req.query[i] : i \in 1..Len(req.query)} : v \in PageParams).due
    ELSE 1

\* C20: the page number a listing uses is at least 1: it is the number N of
\* the page parameter when that is a decimal integer N >= 1, and 1 when the
\* parameter is missing, empty, not an integer, zero or negative.
C20_PageNormalized ==
    (ListAnswered /\ "query" \in DOMAIN req) =>
        /\ served.page >= 1
        /\ served.page = DuePage

\* a listing was asked with page=-1 after another parameter and used page 1
C20_NegativePage ==
    /\ ListAnswered
    /\ "query" \in DOMAIN req
    /\ Len(req.query) = 2
    /\ req.query[2].name = << "page" >>
    /\ req.query[2].text = << "-", "1" >>
    /\ served.page = 1

\* ------------------------------------------------------------------------
\* Properties of the locations uploads write
\* ------------------------------------------------------------------------

\* the locations whose content differs between the filesystems f and g
Changed(f, g) ==
    {q \in DOMAIN f \cup DOMAIN g : q \notin DOMAIN f \/ q \notin DOMAIN g \/ f[q] # g[q]}

\* q is the location of the basename of a named part of the upload r in its
\* target directory, and holds the bytes of such a part
StoredPartOf(r, g, q) ==
    /\ isfile(g, q)
    /\ dirname(q) = PostTargetOf(r)
    /\ \E i \in 1..Len(r.parts) :
          /\ r.parts[i].file
          /\ r.parts[i].filename # << >>
          /\ q = pathjoin(PostTargetOf(r), basename(r.parts[i].filename))
          /\ ReadFile(g, q) = r.parts[i].data

\* C21: every file an upload creates or overwrites is a direct child of the
\* resolved target directory, at the basename of a submitted file name and
\* with that part's bytes, whatever separators or ".." components the name
\* has; nothing else in the filesystem changes.
C21_WritesInTarget ==
    [][(req = IdleRequest /\ UploadPostedBy(req'))
          => \A q \in Changed(fs, fs') : StoredPartOf(req', fs', q)]_vars

\* the file d/f was uploaded into the root: the root's file f was overwritten
\* with the uploaded byte and the file f of the subdirectory d is untouched
C21_BasenameOverwrites ==
    /\ UploadPosted
    /\ AnswersOnly(200)
    /\ req.parts[1].filename = << "d", "/", "f" >>
    /\ PostTarget = << "/", "r" >>
    /\ ReadFile(fs, << "/", "r", "/", "f" >>) = << "y" >>
    /\ ReadFile(fs, << "/", "r", "/", "d", "/", "f" >>) = << "-" >>

\* ------------------------------------------------------------------------
\* Properties of concurrent video thumbnails
\* ------------------------------------------------------------------------

\* the fragment a thread that renders video file_path alone ends with: the
\* frame of that video, or the video icon when the file has no frame
OwnFragment(f, file_path) ==
    IF HasFrame(ReadFile(f, file_path))
    THEN VideoFragment(b64encode(FfmpegFrame(ReadFile(f, file_path))), basename(file_path))
    ELSE Icon("video")

\* thread t has its fragment: it rendered it or took it from the cache
HasFragment(t) == threads[t].pc \in {"cache", "caching", "return"}

\* C22: when worker threads render thumbnails of different video files of one
\* directory concurrently, each thread's fragment and the fragment cached
\* under each file's key embed the frame extracted from that file's video:
\* no thread's extraction reads, overwrites or deletes another's frame file.
C22_OwnFrame ==
    /\ \A t \in Threads :
          HasFragment(t) => threads[t].result = OwnFragment(fs, threads[t].file_path)
    /\ \A k \in DOMAIN THUMBNAIL_CACHE : THUMBNAIL_CACHE[k] = OwnFragment(fs, k[1])

====
